---- MODULE Spec2Model ----
(***************************************************************************)
(* A model of the asynchronous task layer of AutoScorer: the submit       *)
(* handler (api/server.py submit_job), the three Celery workers            *)
(* (celery_app/tasks.py), the task store (utils/task_store.py), the       *)
(* status query (api/server.py get_task_status) and the callback POST     *)
(* helper (_http_post_json); and of the synchronous parts under it: the   *)
(* scorer registry, the container executor and its paths, the scheduler,  *)
(* the workspace validator, the pipeline entry points, POST /pipeline and  *)
(* GET /logs.                                                              *)
(*                                                                         *)
(* Handlers and workers run in different processes, so each handler is    *)
(* cut into steps at the points where it talks to the broker or to the    *)
(* store; a step is atomic, steps of different handlers interleave.       *)
(***************************************************************************)
EXTENDS Integers, Sequences, FiniteSets, TLC

(***************************************************************************)
(* Bounds of the model.                                                    *)
(***************************************************************************)
MaxTasks == 2
MaxHandlers == 2
MaxQueries == 2
MaxJobs == 1
MaxMtime == 3
MaxLoaders == 1
MaxWatchers == 2
MaxNodes == 2
MaxCalls == 2
MaxPred == 2
MaxUpserts == 3
MaxProcesses == 2

TaskIds == 1..MaxTasks
Handlers == 1..MaxHandlers

(***************************************************************************)
(* Request inputs.  A workspace path is a sequence of characters, because *)
(* the deduplication test of submit_job is a substring test.              *)
(***************************************************************************)
W1 == <<"/", "w">>
W2 == <<"/", "w", "2">>
Workspaces == {W1, W2}
Actions == {"run", "score", "pipeline"}
CallbackUrls == {"None", "url"}

NoStr == ""
NoPath == <<>>
NullVal == [kind |-> "null"]

(***************************************************************************)
(* Python values.  The details of an AutoscorerError are None or a dict;  *)
(* a dict is modelled by its set of keys.                                  *)
(***************************************************************************)
DNone == [none |-> TRUE, keys |-> {}]
Dict(keys) == [none |-> FALSE, keys |-> keys]
Truthy(d) == ~d.none /\ d.keys # {}
EmptyDict == Dict({})
WorkspaceDict == Dict({"workspace"})
DetailsValues == {DNone, EmptyDict, Dict({"all_errors"})}

\* `s in args` of Python on strings
Contains(s, sub) ==
  \E i \in 0..(Len(s) - Len(sub)) : SubSeq(s, i + 1, i + Len(sub)) = sub

(***************************************************************************)
(* utils/errors.py                                                         *)
(***************************************************************************)
make_error(stage, code, message, details, logs_path) ==
  [ok |-> FALSE, stage |-> stage, code |-> code, message |-> message]
    @@ (IF Truthy(details) THEN [details |-> details] ELSE <<>>)
    @@ (IF logs_path # NoStr THEN [logs |-> logs_path] ELSE <<>>)

\* meta.timestamp, the wall-clock time of the call, is left out
make_error_response(code, message, stage, details) ==
  [ok |-> FALSE,
   error |-> [code |-> code, message |-> message, stage |-> stage,
              details |-> IF Truthy(details) THEN details ELSE EmptyDict],
   meta |-> [version |-> "0.1.0"]]

(***************************************************************************)
(* api/server.py: the response envelopes (meta.timestamp left out) and    *)
(* the handler of exceptions that leave an endpoint.                       *)
(***************************************************************************)
make_success_response(data, meta) ==
  [ok |-> TRUE, data |-> data, meta |-> meta @@ [version |-> "0.1.0"]]

api_make_error_response(code, message, stage, details) ==
  [ok |-> FALSE,
   error |-> [code |-> code, message |-> message, stage |-> stage,
              details |-> IF Truthy(details) THEN details ELSE EmptyDict],
   meta |-> [version |-> "0.1.0"]]

global_exception_handler(message) ==
  [http |-> 500,
   body |-> api_make_error_response("UNHANDLED_ERROR", message, "api", DNone)]

Http200(body) == [http |-> 200, body |-> body]
NoResponse == [http |-> 0, body |-> [ok |-> FALSE]]

(***************************************************************************)
(* Outcome of one stage of a job (validation + container run, or          *)
(* scoring): it completes, raises an AutoscorerError, or raises another   *)
(* exception.                                                              *)
(***************************************************************************)
StageOk == [k |-> "ok", code |-> NoStr, message |-> NoStr, details |-> DNone]
StageTyped(code, d) ==
  [k |-> "typed", code |-> code, message |-> "typed failure", details |-> d]
StageUntyped ==
  [k |-> "untyped", code |-> NoStr, message |-> "boom", details |-> DNone]
RunOutcomes ==
  {StageOk, StageUntyped}
    \cup {StageTyped("CONTAINER_EXIT_NONZERO", d) : d \in DetailsValues}
ScoreOutcomes ==
  {StageOk, StageUntyped}
    \cup {StageTyped("SCORER_NOT_FOUND", d) : d \in DetailsValues}

(***************************************************************************)
(* pipeline.py.  The value of a call is a record with k = "ret" (the call *)
(* returned val), k = "typed" (it raised AutoscorerError) or              *)
(* k = "untyped" (it raised another exception).                           *)
(***************************************************************************)
Ret(val) ==
  [k |-> "ret", val |-> val, code |-> NoStr, message |-> NoStr, details |-> DNone]
RaiseTyped(code, message, details) ==
  [k |-> "typed", val |-> NullVal, code |-> code, message |-> message,
   details |-> details]
RaiseUntyped(message) ==
  [k |-> "untyped", val |-> NullVal, code |-> NoStr, message |-> message,
   details |-> DNone]
\* out.write_text raised in a handler of run_and_score
WriteFailed == RaiseUntyped("write failed")
Propagate(o) ==
  IF o.k = "typed" THEN RaiseTyped(o.code, o.message, o.details)
  ELSE RaiseUntyped(o.message)

run_only(r) ==
  IF r.k = "ok" THEN Ret([ok |-> TRUE, stage |-> "inference_done", job_id |-> "job"])
  ELSE Propagate(r)

score_only(s) ==
  IF s.k = "ok" THEN Ret([kind |-> "Result", summary |-> "score"])
  ELSE Propagate(s)

\* wr: whether writing the error document output/result.json succeeds
run_and_score(r, s, wr) ==
  LET ro == run_only(r)
      so == score_only(s)
  IN  IF ro.k = "typed"
        THEN Ret(make_error("run", ro.code, ro.message, ro.details, "container.log"))
      ELSE IF ro.k = "untyped"
        THEN Ret(make_error("run", "EXEC_ERROR", ro.message, DNone, "container.log"))
      ELSE IF so.k = "ret"
        THEN Ret([ok |-> TRUE, result |-> so.val, result_path |-> "result.json"])
      ELSE IF ~wr
        THEN WriteFailed
      ELSE IF so.k = "typed"
        THEN Ret([kind |-> "Result",
                  error |-> make_error("score", so.code, so.message, so.details, NoStr)])
      ELSE Ret([kind |-> "Result",
                error |-> make_error("score", "SCORE_ERROR", so.message, DNone, NoStr)])

(***************************************************************************)
(* utils/task_store.py                                                     *)
(***************************************************************************)
NoRecord ==
  [exists |-> FALSE, action |-> NoStr, workspace |-> NoPath, state |-> NoStr,
   result |-> NullVal, error |-> NullVal,
   created_at |-> 0, updated_at |-> 0, finished_at |-> 0]

\* _utc_now_iso: timestamps are only ever compared within one record, so the
\* clock is kept per record: every upsert reads a time later than every time
\* already written to the record (0 stands for NULL)
utc_now(st, id) == IF st[id].exists THEN st[id].updated_at + 1 ELSE 1

\* an UPDATE that binds every column, also the ones that were not passed
upsert_at_Overwrite(st, id, action, workspace, state, result, error, finished, now) ==
  [st EXCEPT ![id] =
     [exists |-> TRUE, action |-> action, workspace |-> workspace,
      state |-> state, result |-> result, error |-> error,
      created_at |-> IF st[id].exists THEN st[id].created_at ELSE now,
      updated_at |-> now,
      finished_at |-> IF finished THEN now ELSE st[id].finished_at]]

\* a None argument (NoStr, NoPath, NullVal) leaves the column alone on UPDATE
upsert_at(st, id, action, workspace, state, result, error, finished, now) ==
  IF ~st[id].exists
    THEN [st EXCEPT ![id] =
            [exists |-> TRUE, action |-> action, workspace |-> workspace,
             state |-> state, result |-> result, error |-> error,
             created_at |-> now, updated_at |-> now,
             finished_at |-> IF finished THEN now ELSE 0]]
    ELSE [st EXCEPT ![id] =
            [@ EXCEPT !.action = IF action # NoStr THEN action ELSE @,
                      !.workspace = IF workspace # NoPath THEN workspace ELSE @,
                      !.state = IF state # NoStr THEN state ELSE @,
                      !.result = IF result # NullVal THEN result ELSE @,
                      !.error = IF error # NullVal THEN error ELSE @,
                      !.finished_at = IF finished THEN now ELSE @,
                      !.updated_at = now]]

upsert(st, id, action, workspace, state, result, error, finished) ==
  upsert_at(st, id, action, workspace, state, result, error, finished,
            utc_now(st, id))

VARIABLES
  nextId,      \* the id the broker gives to the next task sent
  tasks,       \* the task messages sent: id -> [name, workspace, callback_url]
  wpc,         \* the position of each task: none, queued, started, called, persisted, returned, raised
  orch,        \* what the orchestrator call of each task's worker produced
  broker,      \* the result backend: id -> [state, payload]
  store,       \* the task store: id -> record
  cbLog,       \* the callback envelope each worker handed to _http_post_json
  sub,         \* the submit handlers in progress
  lastResp,    \* the last response of /submit
  qry,         \* the status query in progress
  lastStatus,  \* the last response of /tasks/{task_id}
  nq,          \* the number of status queries started
  hp           \* one call of _http_post_json

taskVars == <<nextId, tasks, wpc, orch, broker, store, cbLog>>
apiVars == <<sub, lastResp, qry, lastStatus, nq>>

VARIABLES
  scorers,       \* ScorerRegistry._scorers: name -> class
  loaded_files,  \* ScorerRegistry._loaded_files: path -> mtime, 0 when absent
  watchers,      \* ScorerRegistry._watchers: path -> thread, 0 when absent
  watch_enabled, \* ScorerRegistry._watch_enabled
  disk,          \* the scorer file on disk: its mtime and its body
  ld,            \* the call of load_from_file each thread is in
  wt,            \* the watcher threads
  seen,          \* what the last list_scorers returned
  dirty,         \* path -> modified while watched and not re-executed since
  ex             \* one call of DockerExecutor.run

VARIABLES
  sch,           \* one Scheduler and its call of select_executor
  vw,            \* one call of validate_workspace
  pl,            \* one call of run_only, score_only or run_and_score
  sco            \* the calls of score_only on one workspace

VARIABLES
  mnt,           \* the paths of one call of DockerExecutor.run and the files it left
  us             \* the calls of TaskStore.upsert in progress, one per process

regVars == <<scorers, loaded_files, watchers, watch_enabled, disk, ld, wt, seen, dirty>>
pipeVars == <<sch, vw, pl, sco>>
lateVars == <<mnt, us>>
extVars == <<regVars, ex, pipeVars, lateVars>>
vars == <<nextId, tasks, wpc, orch, broker, store, cbLog,
          sub, lastResp, qry, lastStatus, nq, hp, extVars>>


(***************************************************************************)
(* The broker and the task messages.                                       *)
(***************************************************************************)
NoTask == [name |-> NoStr, workspace |-> NoPath, callback_url |-> "None"]
NoOrch == [k |-> "none", val |-> NullVal, code |-> NoStr, message |-> NoStr,
           details |-> DNone]
NoEnvelope == [kind |-> "none"]
Pending == [state |-> "PENDING", payload |-> NullVal]
READY_STATES == {"SUCCESS", "FAILURE", "REVOKED"}
FailedStates == {"FAILURE", "REVOKED"}

task_name_map(action) ==
  CASE action = "run" -> "autoscorer.run_job"
    [] action = "score" -> "autoscorer.score_job"
    [] action = "pipeline" -> "autoscorer.run_and_score_job"
    [] OTHER -> "autoscorer.run_and_score_job"

\* the stage label each worker gives to its errors and to the store's action
JobStage(name) ==
  CASE name = "autoscorer.run_job" -> "run"
    [] name = "autoscorer.score_job" -> "score"
    [] OTHER -> "pipeline"

\* the code each worker gives to an exception that is no AutoscorerError; the
\* faulty variant gives run_job's code in every worker
UntypedCode_AlwaysExec(name) == "EXEC_ERROR"
UntypedCode(name) ==
  CASE name = "autoscorer.run_job" -> "EXEC_ERROR"
    [] name = "autoscorer.score_job" -> "SCORE_ERROR"
    [] OTHER -> "PIPELINE_ERROR"

\* repr of the positional arguments, as the broker's inspection reports it
UrlRepr(cb) == IF cb = "None" THEN <<"N">> ELSE <<"'", "u", "'">>
ArgsRepr(m) ==
  <<"(", "'">> \o m.workspace \o <<"'", ",">> \o UrlRepr(m.callback_url) \o <<")">>

\* the deduplication test: `if ws in args`; the faulty variant matches every task
Matches_Always(m, w) == TRUE
Matches(m, w) == Contains(ArgsRepr(m), w)

Queued == {t \in TaskIds : wpc[t] = "queued"}
Executing == {"started", "called", "persisted"}
Active == {t \in TaskIds : wpc[t] \in Executing}
InFlight(w) == {t \in Queued \cup Active : tasks[t].workspace = w}

Terminal == {"SUCCESS", "FAILURE", "REVOKED"}
StateRank(s) ==
  CASE s = "SUBMITTED" -> 1
    [] s = "STARTED" -> 2
    [] s \in Terminal -> 3
    [] OTHER -> 0

(***************************************************************************)
(* submit_job                                                              *)
(***************************************************************************)
IdleH == [pc |-> "idle", action |-> NoStr, workspace |-> NoPath,
          callback_url |-> "None", tid |-> 0]
DedupData(e, a, w) ==
  [submitted |-> FALSE, running |-> TRUE, task_id |-> e, action |-> a,
   workspace |-> w]
SubmittedData(id, a, w) ==
  [submitted |-> TRUE, task_id |-> id, action |-> a, workspace |-> w]

\* the broker inspection and, when it finds a task, the response
SubmitInspect(h, a, w, cb, inspOk, cap) ==
  /\ sub[h].pc = "idle"
  /\ \A g \in Handlers : g < h => sub[g].pc # "idle"
  /\ LET found == IF inspOk
                    THEN {t \in Active : Matches(tasks[t], w)}
                    ELSE {}
     IN  IF found # {}
           THEN /\ \E e \in found :
                     lastResp' = Http200(make_success_response(
                                    DedupData(e, a, w), [action |-> "submit_dedup"]))
                /\ UNCHANGED sub
           ELSE /\ nextId + Cardinality({g \in Handlers : sub[g].pc = "clear"}) <= cap
                /\ sub' = [sub EXCEPT ![h] =
                             [pc |-> "clear", action |-> a, workspace |-> w,
                              callback_url |-> cb, tid |-> 0]]
                /\ UNCHANGED lastResp
  /\ UNCHANGED <<taskVars, qry, lastStatus, nq, hp, extVars>>

\* send_task
SubmitSend(h) ==
  /\ sub[h].pc = "clear"
  /\ nextId <= MaxTasks
  /\ tasks' = [tasks EXCEPT ![nextId] =
                 [name |-> task_name_map(sub[h].action),
                  workspace |-> sub[h].workspace,
                  callback_url |-> sub[h].callback_url]]
  /\ wpc' = [wpc EXCEPT ![nextId] = "queued"]
  /\ nextId' = nextId + 1
  /\ sub' = [sub EXCEPT ![h].pc = "sent", ![h].tid = nextId]
  /\ UNCHANGED <<orch, broker, store, cbLog, lastResp, qry, lastStatus, nq, hp, extVars>>

\* the initial record and the response
SubmitPersist(h) ==
  /\ sub[h].pc = "sent"
  /\ store' = upsert(store, sub[h].tid, sub[h].action, sub[h].workspace,
                     "SUBMITTED", NullVal, NullVal, FALSE)
  /\ lastResp' = Http200(make_success_response(
                 SubmittedData(sub[h].tid, sub[h].action, sub[h].workspace),
                 [action |-> "submit"]))
  /\ sub' = [sub EXCEPT ![h] = IdleH]
  /\ UNCHANGED <<nextId, tasks, wpc, orch, broker, cbLog, qry, lastStatus, nq, hp, extVars>>

(***************************************************************************)
(* The workers run_job, score_job and run_and_score_job.                  *)
(***************************************************************************)
\* the orchestrator call of each worker; score_job wraps what score_only returns
Orchestrate(m, r, s, wr) ==
  CASE m.name = "autoscorer.run_job" -> run_only(r)
    [] m.name = "autoscorer.score_job" ->
         LET so == score_only(s)
         IN  IF so.k = "ret"
               THEN Ret([result |-> so.val, output_path |-> "result.json",
                         workspace |-> m.workspace])
               ELSE so
    [] OTHER -> run_and_score(r, s, wr)

\* the data of the success callback, which is also the result persisted
SuccessData(m, val) ==
  IF m.name = "autoscorer.score_job" THEN val
  ELSE [result |-> val, workspace |-> m.workspace]

\* what the worker returns to the broker
Returned(m, val) == val

\* payload["error"]["details"] = (e.details or {}); .update({"workspace": workspace})
CallbackDetails(details) ==
  Dict((IF Truthy(details) THEN details.keys ELSE {}) \cup {"workspace"})

\* e.details after the callback branch: a non-empty dict is updated in place
DetailsAfterCallback(m, details) ==
  IF m.callback_url # "None" /\ Truthy(details)
    THEN CallbackDetails(details) ELSE details

TypedCallback(t, m, o) ==
  LET payload == make_error_response(o.code, o.message, JobStage(m.name), DNone)
  IN  [payload EXCEPT !.meta = @ @@ [task_id |-> t],
                      !.error.details = CallbackDetails(o.details)]

UntypedCallback(t, m, o) ==
  LET payload == make_error_response(UntypedCode(m.name), o.message,
                                     JobStage(m.name), DNone)
  IN  [payload EXCEPT !.meta = @ @@ [task_id |-> t],
                      !.error.details = WorkspaceDict]

SuccessCallback(t, m, o) ==
  [ok |-> TRUE, data |-> SuccessData(m, o.val), meta |-> [task_id |-> t]]

\* the error each except branch persists
TypedError(o) == [code |-> o.code, message |-> o.message, details |-> o.details]
UntypedError(m, o) ==
  [code |-> UntypedCode(m.name), message |-> o.message,
   details |-> WorkspaceDict]

\* the exception each except branch leaves the worker with
TypedRaise(o) == [kind |-> "exc", type |-> "Exception",
                  args |-> <<o.code, ": ", o.message>>]
UntypedRaise(o) == [kind |-> "exc", type |-> "original", args |-> <<o.message>>]

\* the broker hands the task to a worker, which marks the record STARTED
WorkerStart(t) ==
  /\ wpc[t] = "queued"
  /\ wpc' = [wpc EXCEPT ![t] = "started"]
  /\ broker' = [broker EXCEPT ![t] = [state |-> "STARTED", payload |-> NullVal]]
  /\ store' = upsert(store, t, JobStage(tasks[t].name), tasks[t].workspace,
                     "STARTED", NullVal, NullVal, FALSE)
  /\ UNCHANGED <<nextId, tasks, orch, cbLog, apiVars, hp, extVars>>

\* the orchestrator call, update_state on failure, and the callback
WorkerExec(t, r, s, wr) ==
  /\ wpc[t] = "started"
  /\ LET m == tasks[t]
         o == Orchestrate(m, r, s, wr)
         cb == m.callback_url # "None"
     IN  /\ orch' = [orch EXCEPT ![t] =
                       [o EXCEPT !.details = DetailsAfterCallback(m, o.details)]]
         /\ broker' = [broker EXCEPT ![t] =
              CASE o.k = "ret" -> @
                [] o.k = "typed" ->
                     [state |-> "FAILURE",
                      payload |-> make_error(JobStage(m.name), o.code, o.message,
                                             o.details, NoStr)]
                [] OTHER ->
                     [state |-> "FAILURE",
                      payload |-> make_error(JobStage(m.name), UntypedCode(m.name),
                                             o.message, DNone, NoStr)]]
         /\ cbLog' = [cbLog EXCEPT ![t] =
              CASE ~cb -> NoEnvelope
                [] o.k = "ret" -> SuccessCallback(t, m, o)
                [] o.k = "typed" -> TypedCallback(t, m, o)
                [] OTHER -> UntypedCallback(t, m, o)]
  /\ wpc' = [wpc EXCEPT ![t] = "called"]
  /\ UNCHANGED <<nextId, tasks, store, apiVars, hp, extVars>>

\* the terminal upsert
WorkerPersist(t) ==
  /\ wpc[t] = "called"
  /\ LET m == tasks[t]
         o == orch[t]
     IN  store' =
           CASE o.k = "ret" ->
                  upsert(store, t, NoStr, NoPath, "SUCCESS", SuccessData(m, o.val),
                         NullVal, TRUE)
             [] o.k = "typed" ->
                  upsert(store, t, NoStr, NoPath, "FAILURE", NullVal,
                         TypedError(o), TRUE)
             [] OTHER ->
                  upsert(store, t, NoStr, NoPath, "FAILURE", NullVal,
                         UntypedError(m, o), TRUE)
  /\ wpc' = [wpc EXCEPT ![t] = "persisted"]
  /\ UNCHANGED <<nextId, tasks, orch, broker, cbLog, apiVars, hp, extVars>>

\* return or raise: the broker records the task's final state
WorkerFinish(t) ==
  /\ wpc[t] = "persisted"
  /\ LET m == tasks[t]
         o == orch[t]
     IN  /\ broker' = [broker EXCEPT ![t] =
              CASE o.k = "ret" ->
                     [state |-> "SUCCESS", payload |-> Returned(m, o.val)]
                [] o.k = "typed" ->
                     [state |-> "FAILURE", payload |-> TypedRaise(o)]
                [] OTHER ->
                     [state |-> "FAILURE", payload |-> UntypedRaise(o)]]
         /\ wpc' = [wpc EXCEPT ![t] = IF o.k = "ret" THEN "returned" ELSE "raised"]
  /\ UNCHANGED <<nextId, tasks, orch, store, cbLog, apiVars, hp, extVars>>

(***************************************************************************)
(* get_task_status.  The handler reads the broker's state when it builds  *)
(* the response, and asks the broker again with ready(); the worker may   *)
(* act between the two reads.  brOk says whether the broker answers.      *)
(***************************************************************************)
NoQuery == [pc |-> "idle", tid |-> 0, state |-> NoStr]
IsExc(res) == "kind" \in DOMAIN res /\ res.kind = "exc"

\* make_success_response(resp, {"action": "task_status"})
StatusResponse(resp) ==
  Http200(make_success_response(resp, [action |-> "task_status"]))

\* str(e) of an exception raised by the broker client
BrokerError == "broker error"

\* err = res if isinstance(res, dict) else {"error": str(res)}
ErrOf(res) == IF IsExc(res) THEN [error |-> res.args] ELSE res

\* the write-back of a ready task
Reconcile(st, t, state, res) ==
  IF state = "SUCCESS"
    THEN upsert(st, t, NoStr, NoPath, state, res, NullVal, TRUE)
  ELSE IF state \in FailedStates
    THEN upsert(st, t, NoStr, NoPath, state, NullVal, ErrOf(res), TRUE)
  ELSE upsert(st, t, NoStr, NoPath, state, NullVal, NullVal, FALSE)

\* stored.get("state") or resp["state"]; stored.get("result") or stored.get("error")
StoredState(rec, state) == IF rec.state # NoStr THEN rec.state ELSE state
StoredResult(rec) == IF rec.result # NullVal THEN rec.result ELSE rec.error

\* resp = {"id": task_id, "state": async_result.state}, outside the try block
StatusBegin(t, brOk) ==
  /\ qry.pc = "idle"
  /\ nq < MaxQueries
  /\ nq' = nq + 1
  /\ IF brOk
       THEN /\ qry' = [pc |-> "read", tid |-> t, state |-> broker[t].state]
            /\ UNCHANGED lastStatus
       ELSE /\ lastStatus' = global_exception_handler(BrokerError)
            /\ UNCHANGED qry
  /\ UNCHANGED <<taskVars, sub, lastResp, hp, extVars>>

\* the try block: ready(), get(), the write-back or the fallback to the store
StatusFinish(brOk) ==
  /\ qry.pc = "read"
  /\ LET t == qry.tid
         b == broker[t]
         resp == [id |-> t, state |-> qry.state]
     IN  IF ~brOk
           THEN /\ lastStatus' = StatusResponse(
                                   resp @@ [result |-> [error |-> BrokerError]])
                /\ UNCHANGED store
         ELSE IF b.state \in READY_STATES
           THEN /\ store' = Reconcile(store, t, b.state, b.payload)
                /\ lastStatus' = StatusResponse(resp @@ [result |-> b.payload])
         ELSE IF store[t].exists
           THEN /\ lastStatus' = StatusResponse(
                                   [id |-> t,
                                    state |-> StoredState(store[t], qry.state),
                                    result |-> StoredResult(store[t])])
                /\ UNCHANGED store
         ELSE /\ lastStatus' = StatusResponse(resp)
              /\ UNCHANGED store
  /\ qry' = NoQuery
  /\ UNCHANGED <<nextId, tasks, wpc, orch, broker, cbLog, sub, lastResp, nq, hp, extVars>>

(***************************************************************************)
(* _http_post_json(url, payload, retries = 2).  hp.log lists the HTTP     *)
(* POSTs sent, each with the library that sent it and how it ended.       *)
(***************************************************************************)
DefaultRetries == 2
PostFailures == {"refused", "timeout"}
NoPost == [pc |-> "idle", requests |-> FALSE, attempt |-> 0, log |-> <<>>,
           last_err |-> FALSE, warned |-> FALSE]
Max0(n) == IF n > 0 THEN n ELSE 0

\* the loop test, and the warning after the loop
PostLoop(h, attempt, last_err) ==
  IF attempt <= Max0(DefaultRetries)
    THEN [h EXCEPT !.pc = "requests", !.attempt = attempt, !.last_err = last_err]
    ELSE [h EXCEPT !.pc = "done", !.attempt = attempt, !.last_err = last_err,
                   !.warned = last_err]

\* a worker calls the helper; requests may or may not be installed
PostCall(haveRequests) ==
  /\ hp.pc = "idle"
  /\ hp' = PostLoop([NoPost EXCEPT !.requests = haveRequests], 0, FALSE)
  /\ UNCHANGED <<taskVars, apiVars, extVars>>

\* the first try block: requests.post
PostRequests(out) ==
  /\ hp.pc = "requests"
  /\ IF ~hp.requests
       THEN hp' = [hp EXCEPT !.pc = "urllib", !.last_err = TRUE]
       ELSE IF out = "ok"
         THEN hp' = [hp EXCEPT !.pc = "done", !.log = Append(@, <<"requests", out>>)]
         ELSE hp' = [hp EXCEPT !.pc = "urllib", !.last_err = TRUE,
                               !.log = Append(@, <<"requests", out>>)]
  /\ UNCHANGED <<taskVars, apiVars, extVars>>

\* the second try block: urllib, then the backoff and the next round
PostUrllib(out) ==
  /\ hp.pc = "urllib"
  /\ IF out = "ok"
       THEN hp' = [hp EXCEPT !.pc = "done", !.log = Append(@, <<"urllib", out>>)]
       ELSE hp' = PostLoop([hp EXCEPT !.log = Append(@, <<"urllib", out>>)],
                           hp.attempt + 1, TRUE)
  /\ UNCHANGED <<taskVars, apiVars, extVars>>

(***************************************************************************)
(* scorers/registry.py: the scorer registry, dynamic loading, the watchers. *)
(***************************************************************************)
Loaders == 1..MaxLoaders
WatcherIds == (MaxLoaders + 1)..(MaxLoaders + MaxWatchers)
Threads == Loaders \cup WatcherIds

ScorerFile == "s.py"
TextFile == "s.txt"
MissingFile == "gone.py"
Paths == {ScorerFile, TextFile, MissingFile}
Exists(p) == p # MissingFile
SuffixPy(p) == p # TextFile

ScorerNames == {"a", "b"}
NoClass == [cls |-> "", ver |-> 0]
\* the class object an execution of the file at mtime ver binds to the name
Class(name, ver) == [cls |-> name, ver |-> ver]

\* the bodies a scorer file can have: the names its @register decorators
\* register while the module executes, whether the execution raises then, and
\* the scorer classes inspect.getmembers finds afterwards, in name order, each
\* with its SCORER_NAME and whether that name can be a dict key
GoodBody ==
  [decorated |-> <<>>, raises |-> FALSE,
   classes |-> <<[name |-> "a", hashable |-> TRUE], [name |-> "b", hashable |-> TRUE]>>]
SyntaxBody == [decorated |-> <<>>, raises |-> TRUE, classes |-> <<>>]
DecoratedBody == [decorated |-> <<"a">>, raises |-> TRUE, classes |-> <<>>]
UnhashableBody ==
  [decorated |-> <<>>, raises |-> FALSE,
   classes |-> <<[name |-> "a", hashable |-> TRUE], [name |-> "b", hashable |-> FALSE]>>]
Bodies == {GoodBody, SyntaxBody, DecoratedBody, UnhashableBody}

\* ScorerRegistry.register, under the lock
register(sc, name, cls) == [sc EXCEPT ![name] = cls]

RECURSIVE RegisterAll(_, _, _)
RegisterAll(sc, names, ver) ==
  IF names = <<>> THEN sc
  ELSE RegisterAll(register(sc, Head(names), Class(Head(names), ver)), Tail(names), ver)

NoResult == [kind |-> "none", names |-> {}, exc |-> ""]
Returns(names) == [kind |-> "ret", names |-> names, exc |-> ""]
Raises(exc) == [kind |-> "raise", names |-> {}, exc |-> exc]
IdleLoad(res) ==
  [pc |-> "idle", path |-> "", force |-> FALSE, mtime |-> 0, ver |-> 0,
   todo |-> <<>>, loaded |-> {}, res |-> res]

IdleNoResult == IdleLoad(NoResult)
Skipped == IdleLoad(Returns({}))
FileNotFound == IdleLoad(Raises("FileNotFoundError"))
NotPython == IdleLoad(Raises("ValueError"))
ExecFailed == IdleLoad(Raises("ImportError"))
RegisterFailed == IdleLoad(Raises("TypeError"))

\* `not force_reload and file_path in self._loaded_files` and the recorded
\* mtime is at least the one on disk; the faulty variant skips only a file
\* recorded as newer than the disk
Skip_Strict(force, recorded, mtime) == ~force /\ recorded # 0 /\ recorded > mtime
Skip(force, recorded, mtime) == ~force /\ recorded # 0 /\ recorded >= mtime

\* load_from_file up to the module's execution
load_begin(p, force) ==
  IF ~Exists(p) THEN FileNotFound
  ELSE IF ~SuffixPy(p) THEN NotPython
  ELSE IF Skip(force, loaded_files[p], disk.mtime) THEN Skipped
  ELSE [pc |-> "exec", path |-> p, force |-> force, mtime |-> disk.mtime, ver |-> 0,
        todo |-> <<>>, loaded |-> {}, res |-> NoResult]

LoadBegin(l, p, force) ==
  /\ ld[l].pc = "idle"
  /\ ld' = [ld EXCEPT ![l] = load_begin(p, force)]
  /\ UNCHANGED <<scorers, loaded_files, watchers, watch_enabled, disk, wt, seen, dirty>>
  /\ UNCHANGED <<taskVars, apiVars, hp, lateVars, ex, pipeVars>>

\* spec.loader.exec_module(module): the file is read and executed now
LoadExec(t) ==
  /\ ld[t].pc = "exec"
  /\ scorers' = RegisterAll(scorers, disk.content.decorated, disk.mtime)
  /\ ld' = [ld EXCEPT ![t] =
              IF disk.content.raises THEN ExecFailed
              ELSE [@ EXCEPT !.pc = "register", !.ver = disk.mtime,
                             !.todo = disk.content.classes]]
  /\ dirty' = [dirty EXCEPT ![ld[t].path] = FALSE]
  /\ UNCHANGED <<loaded_files, watchers, watch_enabled, disk, wt, seen>>
  /\ UNCHANGED <<taskVars, apiVars, hp, lateVars, ex, pipeVars>>

\* one round of the loop over the module's members
LoadRegister(t) ==
  /\ ld[t].pc = "register"
  /\ ld[t].todo # <<>>
  /\ LET c == Head(ld[t].todo)
     IN  IF c.hashable
           THEN /\ scorers' = register(scorers, c.name, Class(c.name, ld[t].ver))
                /\ ld' = [ld EXCEPT ![t].todo = Tail(@), ![t].loaded = @ \cup {c.name}]
           ELSE /\ ld' = [ld EXCEPT ![t] = RegisterFailed]
                /\ UNCHANGED scorers
  /\ UNCHANGED <<loaded_files, watchers, watch_enabled, disk, wt, seen, dirty>>
  /\ UNCHANGED <<taskVars, apiVars, hp, lateVars, ex, pipeVars>>

\* self._loaded_files[file_path] = current_mtime; return loaded_scorers
LoadRecord(t) ==
  /\ ld[t].pc = "register"
  /\ ld[t].todo = <<>>
  /\ loaded_files' = [loaded_files EXCEPT ![ld[t].path] = ld[t].mtime]
  /\ ld' = [ld EXCEPT ![t] = IdleLoad(Returns(ld[t].loaded))]
  /\ UNCHANGED <<scorers, watchers, watch_enabled, disk, wt, seen, dirty>>
  /\ UNCHANGED <<taskVars, apiVars, hp, lateVars, ex, pipeVars>>

\* list_scorers, under the lock
List ==
  /\ seen' = scorers
  /\ UNCHANGED <<scorers, loaded_files, watchers, watch_enabled, disk, ld, wt, dirty>>
  /\ UNCHANGED <<taskVars, apiVars, hp, lateVars, ex, pipeVars>>

\* the environment rewrites the scorer file
Modify(body) ==
  /\ disk.mtime < MaxMtime
  /\ disk' = [mtime |-> disk.mtime + 1, content |-> body]
  /\ dirty' = [dirty EXCEPT ![ScorerFile] = watchers[ScorerFile] # 0]
  /\ UNCHANGED <<scorers, loaded_files, watchers, watch_enabled, ld, wt, seen>>
  /\ UNCHANGED <<taskVars, apiVars, hp, lateVars, ex, pipeVars>>

NoWatcher ==
  [pc |-> "none", path |-> "", last_mtime |-> 0, current_mtime |-> 0, stopped |-> FALSE]

\* start_watching: the new thread is the first one not yet used
StartWatching(p) ==
  /\ watch_enabled
  /\ watchers[p] = 0
  /\ \E t \in WatcherIds :
       /\ wt[t].pc = "none"
       /\ \A u \in WatcherIds : u < t => wt[u].pc # "none"
       /\ watchers' = [watchers EXCEPT ![p] = t]
       /\ wt' = [wt EXCEPT ![t] = [NoWatcher EXCEPT !.pc = "check", !.path = p]]
  /\ UNCHANGED <<scorers, loaded_files, watch_enabled, disk, ld, seen, dirty>>
  /\ UNCHANGED <<taskVars, apiVars, hp, lateVars, ex, pipeVars>>

\* stop_watching, when it returns True
StopWatching(p) ==
  /\ watchers[p] # 0
  /\ watchers' = [watchers EXCEPT ![p] = 0]
  /\ wt' = [wt EXCEPT ![watchers[p]].stopped = TRUE]
  /\ dirty' = [dirty EXCEPT ![p] = FALSE]
  /\ UNCHANGED <<scorers, loaded_files, watch_enabled, disk, ld, seen>>
  /\ UNCHANGED <<taskVars, apiVars, hp, lateVars, ex, pipeVars>>

\* stop_all_watching
StopAllWatching ==
  /\ watch_enabled
  /\ watch_enabled' = FALSE
  /\ watchers' = [p \in Paths |-> 0]
  /\ wt' = [t \in WatcherIds |->
              IF \E p \in Paths : watchers[p] = t THEN [wt[t] EXCEPT !.stopped = TRUE]
              ELSE wt[t]]
  /\ dirty' = [p \in Paths |-> FALSE]
  /\ UNCHANGED <<scorers, loaded_files, disk, ld, seen>>
  /\ UNCHANGED <<taskVars, apiVars, hp, lateVars, ex, pipeVars>>

\* the watcher wakes up: `while self._watch_enabled and file_path in self._watchers`
WatchCheck(t) ==
  /\ wt[t].pc = "check"
  /\ wt' = [wt EXCEPT ![t].pc =
              IF watch_enabled /\ watchers[wt[t].path] # 0 THEN "poll" ELSE "dead"]
  /\ UNCHANGED <<scorers, loaded_files, watchers, watch_enabled, disk, ld, seen, dirty>>
  /\ UNCHANGED <<taskVars, apiVars, hp, lateVars, ex, pipeVars>>

\* the body of the loop up to the reload, and the sleep when there is none
WatchPoll(t) ==
  /\ wt[t].pc = "poll"
  /\ wt' = [wt EXCEPT ![t] =
              IF Exists(wt[t].path) /\ disk.mtime > wt[t].last_mtime
                THEN IF wt[t].last_mtime > 0
                       THEN [@ EXCEPT !.pc = "reload", !.current_mtime = disk.mtime]
                       ELSE [@ EXCEPT !.pc = "check", !.last_mtime = disk.mtime]
                ELSE [@ EXCEPT !.pc = "check"]]
  /\ UNCHANGED <<scorers, loaded_files, watchers, watch_enabled, disk, ld, seen, dirty>>
  /\ UNCHANGED <<taskVars, apiVars, hp, lateVars, ex, pipeVars>>

\* self.reload_file(file_path)
WatchReload(t) ==
  /\ wt[t].pc = "reload"
  /\ ld[t].pc = "idle"
  /\ ld' = [ld EXCEPT ![t] = load_begin(wt[t].path, TRUE)]
  /\ wt' = [wt EXCEPT ![t].pc = "loading"]
  /\ UNCHANGED <<scorers, loaded_files, watchers, watch_enabled, disk, seen, dirty>>
  /\ UNCHANGED <<taskVars, apiVars, hp, lateVars, ex, pipeVars>>

\* the reload returned or raised: last_mtime = current_mtime, then the sleep
WatchResume(t) ==
  /\ wt[t].pc = "loading"
  /\ ld[t].pc = "idle"
  /\ wt' = [wt EXCEPT ![t].pc = "check", ![t].last_mtime = wt[t].current_mtime,
                      ![t].current_mtime = 0]
  /\ ld' = [ld EXCEPT ![t] = IdleNoResult]
  /\ UNCHANGED <<scorers, loaded_files, watchers, watch_enabled, disk, seen, dirty>>
  /\ UNCHANGED <<taskVars, apiVars, hp, lateVars, ex, pipeVars>>

(***************************************************************************)
(* executor/docker_executor.py: DockerExecutor.run.                        *)
(***************************************************************************)
max_retries_Four == 3 + 1
max_retries == 3

PullPolicies == {"always", "ifnotpresent", "never"}
TarNames == <<"image.tar", "image.tar.gz", "image.tgz">>
\* what the workspace holds under each tarball name: nothing, a tarball the
\* engine loads, or one whose load fails
Tarballs == [1..Len(TarNames) -> {"absent", "loads", "fails"}]

\* _try_load_local_image: the first tarball that exists and loads; the faulty
\* variant gives up at the first tarball that exists
try_load_local_image_FirstOnly(tars) ==
  LET there == {i \in 1..Len(TarNames) : tars[i] # "absent"}
  IN  there # {} /\ tars[CHOOSE i \in there : \A j \in there : i <= j] = "loads"
RECURSIVE try_load_from(_, _)
try_load_from(tars, i) ==
  IF i > Len(TarNames) THEN FALSE
  ELSE IF tars[i] = "loads" THEN TRUE
  ELSE try_load_from(tars, i + 1)
try_load_local_image(tars) == try_load_from(tars, 1)

\* the decision to pull; the faulty variant pulls whenever the image is absent
should_pull_WhenAbsent(policy, present) == policy = "always" \/ ~present
should_pull(policy, present) ==
  IF policy = "always" THEN TRUE
  ELSE IF policy = "ifnotpresent" /\ ~present THEN TRUE
  ELSE FALSE

\* the container is removed in the finally clause, when it was created; the
\* faulty variant removes it only when run returns
Removes_OnReturn(created, kind) == created /\ kind = "return"
Removes(created, kind) == created

NoOutcome == [kind |-> "none", code |-> ""]
ExReturn == [kind |-> "return", code |-> ""]
ExRaise(code) == [kind |-> "raise", code |-> code]
\* an exception that is no AutoscorerError
ExUntyped == [kind |-> "raise", code |-> "untyped"]

PullFailed == ExRaise("IMAGE_PULL_FAILED")
NotPresent == ExRaise("IMAGE_NOT_PRESENT")
CreateFailed == ExRaise("CONTAINER_CREATE_FAILED")
TimedOut == ExRaise("TIMEOUT_ERROR")
WaitFailed == ExRaise("CONTAINER_WAIT_FAILED")
ExitNonZero == ExRaise("CONTAINER_EXIT_NONZERO")
PullOutcomes == {"ok", "fail"}
WaitOutcomes == {"exit0", "exit1", "timeout", "error"}
WaitFailures == {"timeout", "error"}

NoRun ==
  [pc |-> "idle", policy |-> "", found |-> FALSE, image_present |-> FALSE,
   action |-> "unknown", attempt |-> 0, pulls |-> <<>>,
   tars |-> [i \in 1..Len(TarNames) |-> "absent"], run_info |-> "",
   created |-> FALSE, removed |-> FALSE, status |-> 0,
   container_log |-> "absent", inspect |-> FALSE, res |-> NoOutcome]

\* run raises or returns: the finally clause, then the outcome
Exit(run, res) ==
  [run EXCEPT !.pc = "done", !.res = res, !.removed = Removes(run.created, res.kind)]

\* the offline import, after the last pull failed or when pulling is forbidden
Offline(run, failure) ==
  IF try_load_local_image(run.tars)
    THEN [run EXCEPT !.pc = "create", !.action = "loaded_tar", !.image_present = TRUE]
  ELSE IF run.image_present /\ failure = PullFailed
    THEN [run EXCEPT !.pc = "create", !.action = "use_local_fallback"]
  ELSE Exit(run, failure)

\* the pull policy, _resolve_local_image and the decision to pull
ExecResolve(policy, found, tars) ==
  /\ ex.pc = "idle"
  /\ ex' = [NoRun EXCEPT !.policy = policy, !.found = found, !.image_present = found,
                         !.action = IF found THEN "use_local" ELSE "unknown",
                         !.tars = tars,
                         !.pc = IF should_pull(policy, found) THEN "pull"
                                ELSE IF policy = "never" /\ ~found THEN "offline"
                                ELSE "create"]
  /\ UNCHANGED <<taskVars, apiVars, hp, lateVars, regVars, pipeVars>>

\* one round of the pull loop: images.pull answers out, images.get answers getOk
ExecPull(out, getOk) ==
  /\ ex.pc = "pull"
  /\ LET run == [ex EXCEPT !.pulls = Append(@, out)]
     IN  ex' = IF out = "ok"
                 THEN [run EXCEPT !.pc = "create", !.action = "pulled",
                                  !.image_present = @ \/ getOk]
               ELSE IF ex.attempt = max_retries - 1
                 THEN Offline(run, PullFailed)
               ELSE [run EXCEPT !.attempt = @ + 1]
  /\ UNCHANGED <<taskVars, apiVars, hp, lateVars, regVars, pipeVars>>

\* `if pull_policy == "never" and not image_present`
ExecOffline ==
  /\ ex.pc = "offline"
  /\ ex' = Offline(ex, NotPresent)
  /\ UNCHANGED <<taskVars, apiVars, hp, lateVars, regVars, pipeVars>>

\* logs/run_info.json is written (the write is taken to succeed), then
\* containers.run answers createOk
ExecCreate(createOk) ==
  /\ ex.pc = "create"
  /\ LET run == [ex EXCEPT !.run_info = ex.action]
     IN  ex' = IF createOk THEN [run EXCEPT !.pc = "wait", !.created = TRUE]
               ELSE Exit(run, CreateFailed)
  /\ UNCHANGED <<taskVars, apiVars, hp, lateVars, regVars, pipeVars>>

\* container.wait as it would be without the test for "timeout" in the message
ExecWait_NoTimeoutTest(out) ==
  /\ ex.pc = "wait"
  /\ ex' = CASE out \in WaitFailures -> Exit(ex, WaitFailed)
             [] out = "exit0" -> [ex EXCEPT !.pc = "logs", !.status = 0]
             [] out = "exit1" -> [ex EXCEPT !.pc = "logs", !.status = 1]
  /\ UNCHANGED <<taskVars, apiVars, hp, lateVars, regVars, pipeVars>>

\* container.wait(timeout): an exit status, a timeout or another failure
ExecWait(out) ==
  /\ ex.pc = "wait"
  /\ ex' = CASE out = "timeout" -> Exit(ex, TimedOut)
             [] out = "error" -> Exit(ex, WaitFailed)
             [] out = "exit0" -> [ex EXCEPT !.pc = "logs", !.status = 0]
             [] out = "exit1" -> [ex EXCEPT !.pc = "logs", !.status = 1]
  /\ UNCHANGED <<taskVars, apiVars, hp, lateVars, regVars, pipeVars>>

\* the logs are captured and written, then the exit status decides
ExecLogs(logsOk, inspectOk) ==
  /\ ex.pc = "logs"
  /\ ex' = IF ~logsOk THEN Exit(ex, ExUntyped)
           ELSE LET run == [ex EXCEPT !.container_log = "captured"]
                IN  IF ex.status = 0 THEN Exit(run, ExReturn)
                    ELSE IF ~inspectOk THEN Exit(run, ExUntyped)
                    ELSE Exit([run EXCEPT !.inspect = TRUE],
                              ExitNonZero)
  /\ UNCHANGED <<taskVars, apiVars, hp, lateVars, regVars, pipeVars>>

(***************************************************************************)
(* scheduler.py: Scheduler.__init__ and select_executor.  A node of NODES *)
(* is a record of its host and its GPU count.                              *)
(***************************************************************************)
NoHost == "None"
LocalSock == "unix:///var/run/docker.sock"
DockerHosts == {NoHost, "tcp://d"}
NodeHosts == {"tcp://n1", "tcp://n2"}
MaxGpus == 1
Node == [host : NodeHosts, gpus : 0..MaxGpus]
RECURSIVE SeqsUpTo(_, _)
SeqsUpTo(S, n) ==
  IF n = 0 THEN {<<>>}
  ELSE LET shorter == SeqsUpTo(S, n - 1)
       IN  shorter \cup {Append(q, x) : q \in {r \in shorter : Len(r) = n - 1}, x \in S}
NodeLists == SeqsUpTo(Node, MaxNodes)
K8sOutcomes == {"ok", "import_error", "error"}

\* sorted(nodes, key = gpus, reverse = True): stable, so of two nodes with the
\* same count the one listed first stays first
RECURSIVE InsertDesc(_, _)
InsertDesc(sorted, n) ==
  IF sorted = <<>> THEN <<n>>
  ELSE IF Head(sorted).gpus >= n.gpus THEN <<Head(sorted)>> \o InsertDesc(Tail(sorted), n)
  ELSE <<n>> \o sorted
RECURSIVE InsertAsc(_, _)
InsertAsc(sorted, n) ==
  IF sorted = <<>> THEN <<n>>
  ELSE IF Head(sorted).gpus <= n.gpus THEN <<Head(sorted)>> \o InsertAsc(Tail(sorted), n)
  ELSE <<n>> \o sorted
RECURSIVE sorted_by_gpus_Ascending(_)
sorted_by_gpus_Ascending(nodes) ==
  IF nodes = <<>> THEN <<>>
  ELSE InsertAsc(sorted_by_gpus_Ascending(SubSeq(nodes, 1, Len(nodes) - 1)),
                 nodes[Len(nodes)])
RECURSIVE sorted_by_gpus(_)
sorted_by_gpus(nodes) ==
  IF nodes = <<>> THEN <<>>
  ELSE InsertDesc(sorted_by_gpus(SubSeq(nodes, 1, Len(nodes) - 1)), nodes[Len(nodes)])

\* DockerExecutor.__init__: node_host or DOCKER_HOST or the local socket
base_url(node_host, docker_host) ==
  IF node_host # NoHost THEN node_host
  ELSE IF docker_host # NoHost THEN docker_host
  ELSE LocalSock

\* the node_host select_executor passes to DockerExecutor
node_host_of(docker_host, enable_nodes, nodes) ==
  IF docker_host # NoHost THEN docker_host
  ELSE IF enable_nodes /\ nodes # <<>> THEN sorted_by_gpus(nodes)[1].host
  ELSE NoHost

NoExecutor == [kind |-> "none", url |-> ""]
K8sExecutor == [kind |-> "k8s", url |-> ""]
DockerExecutor(url) == [kind |-> "docker", url |-> url]
SchedulerError == [kind |-> "raise", url |-> "SCHEDULER_ERROR"]

NoScheduler ==
  [pc |-> "idle", use_k8s |-> FALSE, docker_host |-> NoHost, enable_nodes |-> FALSE,
   nodes |-> <<>>, k8s |-> "", res |-> NoExecutor]

\* Scheduler(): the configuration is read
SchedulerInit(use_k8s, docker_host, enable_nodes, nodes) ==
  /\ sch.pc = "idle"
  /\ sch' = [NoScheduler EXCEPT !.pc = IF use_k8s THEN "k8s" ELSE "docker",
                                !.use_k8s = use_k8s, !.docker_host = docker_host,
                                !.enable_nodes = enable_nodes, !.nodes = nodes]
  /\ UNCHANGED <<taskVars, apiVars, hp, lateVars, regVars, ex, vw, pl, sco>>

\* `if self.use_k8s`: the import and K8sExecutor() answer out
SelectCluster(out) ==
  /\ sch.pc = "k8s"
  /\ sch' = IF out = "ok" THEN [sch EXCEPT !.pc = "done", !.k8s = out, !.res = K8sExecutor]
            ELSE [sch EXCEPT !.pc = "docker", !.k8s = out]
  /\ UNCHANGED <<taskVars, apiVars, hp, lateVars, regVars, ex, vw, pl, sco>>

\* the three DockerExecutor branches; initOk: docker.DockerClient answers
SelectDocker(initOk) ==
  /\ sch.pc = "docker"
  /\ LET node_host == node_host_of(sch.docker_host, sch.enable_nodes, sch.nodes)
     IN  sch' = [sch EXCEPT !.pc = "done",
                            !.res = IF initOk
                                      THEN DockerExecutor(base_url(node_host, sch.docker_host))
                                    ELSE SchedulerError]
  /\ UNCHANGED <<taskVars, apiVars, hp, lateVars, regVars, ex, vw, pl, sco>>

(***************************************************************************)
(* utils/workspace_validator.py and schemas/job.py.  A path of the        *)
(* workspace is absent, a directory, a regular file, or present without    *)
(* the read or the write permission.  A field of meta.json is modelled by  *)
(* the class of its value.                                                  *)
(***************************************************************************)
InputStates == {"absent", "dir", "noread"}
MetaStates == {"absent", "file", "noread"}
DirStates == {"absent", "dir", "readonly", "file"}
MkdirOutcomes == {"ok", "fails", "unwritable"}
Writable == {"dir", "file"}
exists(st) == st # "absent"
readable(st) == st # "noread"
writable(st) == st \in Writable

Writable_Names == {"output", "logs"}

Error(code, message) == [code |-> code, message |-> message]

\* the body of the loop over required_paths for one path: the errors it
\* appends and the state it leaves the path in
NoErrors == <<>>
check_path(name, required, type, st, mk) ==
  IF required /\ ~exists(st)
    THEN [errors |-> <<Error("MISSING_FILE", <<name>>)>>, after |-> st]
  ELSE IF exists(st)
    THEN [errors |->
            IF type = "dir"
              THEN (IF ~readable(st)
                      THEN <<Error("PERMISSION_ERROR", <<name, "not readable">>)>>
                    ELSE NoErrors)
                   \o (IF name \in Writable_Names /\ ~writable(st)
                         THEN <<Error("PERMISSION_ERROR", <<name, "not writable">>)>>
                       ELSE NoErrors)
            ELSE IF ~readable(st)
              THEN <<Error("PERMISSION_ERROR", <<name, "not readable">>)>>
            ELSE NoErrors,
          after |-> st]
  ELSE IF mk = "ok" THEN [errors |-> NoErrors, after |-> "dir"]
  ELSE IF mk = "unwritable"
    THEN [errors |-> <<Error("PERMISSION_ERROR", <<name, "cannot create writable">>)>>,
          after |-> "readonly"]
  ELSE [errors |-> <<Error("PERMISSION_ERROR", <<name, "cannot create">>)>>,
        after |-> st]

Layouts == [input : InputStates, meta : MetaStates, output : DirStates, logs : DirStates]
GoodLayout == [input |-> "dir", meta |-> "file", output |-> "absent", logs |-> "absent"]

\* meta.json.  fields: the required top-level strings present; a numeric
\* field is absent, a positive number, zero, negative, or no number; a size
\* string is a number (or none) followed by a unit
required_fields == <<"job_id", "task_type", "scorer", "input_uri", "output_uri">>
AllFields == {required_fields[i] : i \in 1..Len(required_fields)}
FieldSets == {AllFields, AllFields \ {"job_id"}, AllFields \ {"scorer"}}
NoSize == [present |-> FALSE, num |-> FALSE, unit |-> ""]
Size(num, unit) == [present |-> TRUE, num |-> num, unit |-> unit]
Sizes == {NoSize, Size(TRUE, "Gi"), Size(TRUE, "gi"), Size(TRUE, "GB"), Size(FALSE, "g")}
ShmSizes == {NoSize, Size(TRUE, "g"), Size(TRUE, "GB")}
Containers == {"absent", "no_image", "image"}
TimeLimits == {"absent", "positive", "zero", "nan"}
Cpus == {"absent", "positive", "zero", "nan"}
Gpus == {"absent", "positive", "zero", "negative", "nan"}
ObjectManifests ==
  {m \in [json : {TRUE}, fields : FieldSets, container : Containers,
          shm_size : ShmSizes, time_limit : TimeLimits, resources : BOOLEAN,
          cpu : Cpus, memory : Sizes, gpus : Gpus, registered : BOOLEAN] :
     /\ m.container # "image" => m.shm_size = NoSize
     /\ ~m.resources => m.cpu = "absent" /\ m.memory = NoSize /\ m.gpus = "absent"}
GoodManifest ==
  [json |-> TRUE, fields |-> AllFields, container |-> "image", shm_size |-> NoSize,
   time_limit |-> "positive", resources |-> TRUE, cpu |-> "positive",
   memory |-> Size(TRUE, "Gi"), gpus |-> "zero", registered |-> TRUE]
InvalidJson == [GoodManifest EXCEPT !.json = FALSE]
Manifests == ObjectManifests \cup {InvalidJson}

\* _validate_memory_format: ^\d+(\.\d+)?[gGmM]i?$
RegexUnits == {"g", "G", "m", "M", "gi", "Gi", "mi", "Mi"}
validate_memory_format(v) == v.num /\ v.unit \in RegexUnits

MissingField(f) == Error("BAD_FORMAT", <<"meta.json missing field", f>>)
RECURSIVE missing_fields(_, _)
missing_fields(meta, i) ==
  IF i > Len(required_fields) THEN NoErrors
  ELSE (IF required_fields[i] \in meta.fields THEN NoErrors
        ELSE <<MissingField(required_fields[i])>>)
       \o missing_fields(meta, i + 1)

CpuZero == <<Error("INVALID_RESOURCES", <<"cpu must be > 0">>)>>
CpuNan == <<Error("INVALID_RESOURCES", <<"cpu must be a number">>)>>
MemoryBad == <<Error("INVALID_RESOURCES", <<"invalid memory format">>)>>
GpusNegative == <<Error("INVALID_RESOURCES", <<"gpus must be >= 0">>)>>
GpusNan == <<Error("INVALID_RESOURCES", <<"gpus must be an integer">>)>>
ScorerUnknown == <<Error("SCORER_NOT_FOUND", <<"scorer">>)>>
InvalidJsonError == <<Error("PARSE_ERROR", <<"meta.json invalid JSON">>)>>
MetaReadError == <<Error("PARSE_ERROR", <<"meta.json error">>)>>

resource_errors(meta) ==
  IF ~meta.resources THEN NoErrors
  ELSE (CASE meta.cpu = "zero" -> CpuZero
          [] meta.cpu = "nan" -> CpuNan
          [] OTHER -> NoErrors)
       \o (IF meta.memory.present /\ ~validate_memory_format(meta.memory)
             THEN MemoryBad ELSE NoErrors)
       \o (CASE meta.gpus = "negative" -> GpusNegative
             [] meta.gpus = "nan" -> GpusNan
             [] OTHER -> NoErrors)

\* the second half of validate_workspace, for meta.json in state st
meta_errors(st, meta) ==
  IF ~exists(st) THEN NoErrors
  ELSE IF ~readable(st) THEN MetaReadError
  ELSE IF ~meta.json THEN InvalidJsonError
  ELSE missing_fields(meta, 1)
       \o resource_errors(meta)
       \o (IF "scorer" \in meta.fields /\ ~meta.registered THEN ScorerUnknown
           ELSE NoErrors)

validate_workspace(ws, mk, meta) ==
  LET input == check_path("input", TRUE, "dir", ws.input, mk)
      metaf == check_path("meta.json", TRUE, "file", ws.meta, mk)
      output == check_path("output", FALSE, "dir", ws.output, mk)
      logs == check_path("logs", FALSE, "dir", ws.logs, mk)
      errors == input.errors \o metaf.errors \o output.errors \o logs.errors
                  \o meta_errors(ws.meta, meta)
  IN  [ok |-> errors = NoErrors, errors |-> errors,
       after |-> [ws EXCEPT !.output = output.after, !.logs = logs.after]]

\* JobSpec.from_workspace: the pydantic model requires the five strings and
\* container.image, and converts time_limit, cpu and gpus to numbers; it puts
\* no constraint on their values or on the size strings
JobSpec_from_workspace(st, meta) ==
  IF ~exists(st) THEN "FileNotFoundError"
  ELSE IF ~readable(st) THEN "PermissionError"
  ELSE IF ~meta.json THEN "JSONDecodeError"
  ELSE IF \/ meta.fields # AllFields
          \/ meta.container # "image"
          \/ meta.time_limit = "nan"
          \/ meta.cpu = "nan"
          \/ meta.gpus = "nan"
    THEN "ValidationError"
  ELSE "JobSpec"

NoResultYet == [ok |-> FALSE, errors |-> NoErrors, after |-> GoodLayout]
NoValidation ==
  [pc |-> "idle", ws |-> GoodLayout, mk |-> "ok", meta |-> GoodManifest,
   result |-> NoResultYet]

\* validate_workspace(ws) on a workspace laid out as ws with manifest meta;
\* mk: what mkdir does for a missing output/ or logs/
Validate(ws, mk, meta) ==
  /\ vw.pc = "idle"
  /\ vw' = [pc |-> "done", ws |-> ws, mk |-> mk, meta |-> meta,
            result |-> validate_workspace(ws, mk, meta)]
  /\ UNCHANGED <<taskVars, apiVars, hp, lateVars, regVars, ex, sch, pl, sco>>

(***************************************************************************)
(* pipeline.py, step by step: run_only (validation, JobSpec, executor),    *)
(* score_only (JobSpec, scorer lookup, validate hook, score, result.json)  *)
(* and run_and_score, and the endpoint POST /pipeline of api/server.py.    *)
(* sco holds the files of the workspace that scoring reads and writes and  *)
(* the results score_only returned so far.                                  *)
(***************************************************************************)
Entries == {"run_only", "score_only", "run_and_score", "api_pipeline"}
Pipelines == {"run_and_score", "api_pipeline"}
NoInput == [GoodLayout EXCEPT !.input = "absent"]
NoMeta == [GoodLayout EXCEPT !.meta = "absent"]
OutputIsFile == [GoodLayout EXCEPT !.output = "file"]
PipeLayouts == {GoodLayout, NoInput, NoMeta, OutputIsFile}
NoContainer == [GoodManifest EXCEPT !.container = "absent"]
ZeroCpu == [GoodManifest EXCEPT !.cpu = "zero"]
PipeManifests == {GoodManifest, NoContainer, ZeroCpu, InvalidJson}

NoStage == [k |-> "none", code |-> NoStr, message |-> NoStr, details |-> DNone]
NoReturn ==
  [k |-> "none", val |-> NullVal, code |-> NoStr, message |-> NoStr, details |-> DNone]
AllErrors == Dict({"all_errors"})
NotFoundDetails == Dict({"requested_scorer", "available_scorers"})
ScorerNotFound == StageTyped("SCORER_NOT_FOUND", NotFoundDetails)
DataValidationError == StageTyped("DATA_VALIDATION_ERROR", DNone)
SchedulerFailed == ExRaise("SCHEDULER_ERROR")
ExecutorResults == {ExReturn, ExitNonZero, TimedOut, SchedulerFailed, ExUntyped}
HookOutcomes == {NoStage, StageOk, StageTyped("MISMATCH", DNone), StageUntyped}
ComputeOutcomes == {StageOk, StageTyped("BAD_FORMAT", DNone), StageUntyped}
Event(stage, ok) == [stage |-> stage, ok |-> ok]

Registered(name) == scorers[name] # NoClass
Available == {n \in ScorerNames : Registered(n)}

NoPipeline ==
  [pc |-> "idle", entry |-> "", scorer |-> "a", ws |-> GoodLayout, mk |-> "ok",
   meta |-> GoodManifest, events |-> <<>>, r |-> NoStage, s |-> NoStage,
   available |-> {}, writes |-> 0, ret |-> NoReturn, resp |-> NoResponse]

\* the value an entry point ends with, once its stages ended as r and s
Finish(p, ret) ==
  [p EXCEPT !.pc = IF p.entry = "api_pipeline" THEN "respond" ELSE "done",
            !.ret = ret]

\* run_and_score goes on to the score stage only when run_only returned
continues_Always(r) == TRUE
continues(r) == r.k = "ok"

\* the run stage ended as r
EndRun(p, r) ==
  LET q == [p EXCEPT !.r = r]
  IN  IF p.entry = "run_only" THEN Finish(q, run_only(r))
      ELSE IF continues(r) THEN [q EXCEPT !.pc = "sparse"]
      ELSE Finish(q, run_and_score(r, StageOk, TRUE))

\* the score stage ended as s: score_only returns or raises, and the except
\* branches of run_and_score take over a failure
EndScore(p, s) ==
  LET q == [p EXCEPT !.s = s]
  IN  IF p.entry = "score_only" THEN Finish(q, score_only(s))
      ELSE IF s.k = "ok" THEN Finish(q, run_and_score(p.r, s, TRUE))
      ELSE [q EXCEPT !.pc = "handler"]

\* utils/artifacts.py: the digest of a file is a function of its content
\* (path and size left out)
sha256(content) == <<"sha256", content>>
\* st_size: equal contents have equal sizes; the contents compared here by
\* size are a document and the same document with entries added
st_size(content) == <<"size", content>>
file_info(content) == [size |-> st_size(content), sha256 |-> sha256(content)]

\* the document score_only writes first (line 158): the scorer's summary and
\* metrics, which depend on gt and pred alone, the artifacts found, and the
\* times measured so far
first_document(gt, pred, t) ==
  [summary |-> <<"score", gt, pred>>,
   metrics |-> <<"score", gt, pred>>,
   artifacts |-> [input_gt |-> file_info(gt), output_pred |-> file_info(pred)],
   timing |-> [compute_time |-> t]]

\* the second document as it would be were the file examined after the times
\* are completed
final_document_AfterTimings(first, t) ==
  LET timed == [first EXCEPT !.timing = @ @@ [total_time |-> t]]
  IN  [timed EXCEPT !.artifacts = @ @@ [result_json |-> file_info(timed)]]

\* the document written second (line 168): result_json describes the file
\* as written first
final_document(first, t) ==
  [first EXCEPT !.artifacts = @ @@ [result_json |-> file_info(first)],
                !.timing = @ @@ [total_time |-> t]]

Absent == [kind |-> "absent"]
Timings == {1, 2}
NoScoring == [gt |-> 1, pred |-> 1, result_json |-> Absent, calls |-> <<>>]

\* an entry point is called on a workspace laid out as ws with manifest meta
\* that names scorer; POST /pipeline answers 404 when the workspace is missing
WorkspaceNotFound ==
  [http |-> 404,
   body |-> api_make_error_response("WORKSPACE_NOT_FOUND", "Workspace not found",
                                    "validation", WorkspaceDict)]
PipeBegin(entry, scorer, ws, meta, wsExists) ==
  /\ pl.pc = "idle"
  /\ Len(sco.calls) < MaxCalls
  /\ LET p == [NoPipeline EXCEPT !.entry = entry, !.scorer = scorer, !.ws = ws,
                                 !.meta = meta]
     IN  pl' = IF entry = "api_pipeline" /\ ~wsExists
                 THEN [p EXCEPT !.pc = "done", !.resp = WorkspaceNotFound]
               ELSE [p EXCEPT !.pc = IF entry = "score_only" THEN "sparse"
                                     ELSE "validate"]
  /\ UNCHANGED <<taskVars, apiVars, hp, lateVars, regVars, ex, sch, vw, sco>>

\* run_only, lines 25-37: the first error of the validator is raised
PipeValidate(mk) ==
  /\ pl.pc = "validate"
  /\ LET res == validate_workspace(
                  pl.ws, mk, [pl.meta EXCEPT !.registered = Registered(pl.scorer)])
         p == [pl EXCEPT !.events = Append(@, Event("validate", res.ok)),
                         !.ws = res.after, !.mk = mk]
     IN  pl' = IF res.ok THEN [p EXCEPT !.pc = "parse"]
               ELSE EndRun(p, StageTyped(res.errors[1].code, AllErrors))
  /\ UNCHANGED <<taskVars, apiVars, hp, lateVars, regVars, ex, sch, vw, sco>>

\* run_only, line 39
PipeParse ==
  /\ pl.pc = "parse"
  /\ pl' = IF JobSpec_from_workspace(pl.ws.meta, pl.meta) = "JobSpec"
             THEN [pl EXCEPT !.pc = "execute"]
           ELSE EndRun(pl, StageUntyped)
  /\ UNCHANGED <<taskVars, apiVars, hp, lateVars, regVars, ex, sch, vw, sco>>

\* run_only, lines 41-48: the executor (or the scheduler) ends as out
stage_of(out) ==
  IF out = ExReturn THEN StageOk
  ELSE IF out = ExUntyped THEN StageUntyped
  ELSE StageTyped(out.code, DNone)
PipeExecute(out) ==
  /\ pl.pc = "execute"
  /\ pl' = EndRun([pl EXCEPT !.events = Append(@, Event("run", out = ExReturn))],
                  stage_of(out))
  /\ UNCHANGED <<taskVars, apiVars, hp, lateVars, regVars, ex, sch, vw, sco>>

\* score_only, line 55
ScoreParse ==
  /\ pl.pc = "sparse"
  /\ pl' = IF JobSpec_from_workspace(pl.ws.meta, pl.meta) = "JobSpec"
             THEN [pl EXCEPT !.pc = "resolve"]
           ELSE EndScore(pl, StageUntyped)
  /\ UNCHANGED <<taskVars, apiVars, hp, lateVars, regVars, ex, sch, vw, sco>>

\* score_only, lines 84-99
ScoreResolve ==
  /\ pl.pc = "resolve"
  /\ pl' = IF Registered(pl.scorer) THEN [pl EXCEPT !.pc = "hook"]
           ELSE EndScore([pl EXCEPT !.available = Available], ScorerNotFound)
  /\ UNCHANGED <<taskVars, apiVars, hp, lateVars, regVars, ex, sch, vw, sco>>

\* score_only, lines 101-110: what a failing validate hook raises
hook_failure_Unwrapped(out) == out
hook_failure(out) ==
  IF out.k = "typed" THEN out ELSE DataValidationError

\* out = NoStage: the scorer has no validate hook
ScoreHook(out) ==
  /\ pl.pc = "hook"
  /\ pl' = IF out = NoStage THEN [pl EXCEPT !.pc = "score"]
           ELSE LET p == [pl EXCEPT !.events = Append(@, Event("hook", out.k = "ok"))]
                IN  IF out.k = "ok" THEN [p EXCEPT !.pc = "score"]
                    ELSE EndScore(p, hook_failure(out))
  /\ UNCHANGED <<taskVars, apiVars, hp, lateVars, regVars, ex, sch, vw, sco>>

\* score_only, line 114
ScoreCompute(out) ==
  /\ pl.pc = "score"
  /\ LET p == [pl EXCEPT !.events = Append(@, Event("score", out.k = "ok"))]
     IN  pl' = IF out.k = "ok" THEN [p EXCEPT !.pc = "save"]
               ELSE EndScore(p, out)
  /\ UNCHANGED <<taskVars, apiVars, hp, lateVars, regVars, ex, sch, vw, sco>>

\* score_only, lines 116-175: t is what perf_counter measured; saveOk: the
\* writes of output/result.json succeed
ScoreSave(t, saveOk) ==
  /\ pl.pc = "save"
  /\ IF saveOk
       THEN LET final == final_document(first_document(sco.gt, sco.pred, t), t)
            IN  /\ sco' = [sco EXCEPT !.result_json = final,
                                      !.calls = Append(@, [gt |-> sco.gt,
                                                           pred |-> sco.pred,
                                                           result |-> final])]
                /\ pl' = EndScore([pl EXCEPT !.writes = @ + 2], StageOk)
     ELSE /\ pl' = EndScore(pl, StageUntyped)
          /\ UNCHANGED sco
  /\ UNCHANGED <<taskVars, apiVars, hp, lateVars, regVars, ex, sch, vw>>

\* run_and_score, lines 195-204: the error document is written (wr: the
\* write succeeds) and returned
PipeHandle(wr) ==
  /\ pl.pc = "handler"
  /\ LET ret == run_and_score(pl.r, pl.s, wr)
     IN  /\ pl' = Finish([pl EXCEPT !.writes = IF wr THEN @ + 1 ELSE @], ret)
         /\ sco' = IF wr THEN [sco EXCEPT !.result_json = ret.val] ELSE sco
  /\ UNCHANGED <<taskVars, apiVars, hp, lateVars, regVars, ex, sch, vw>>


\* api_pipeline, lines 560-613, for a call of run_and_score that ended as ret
PipelineMeta == [action |-> "pipeline", backend_used |-> "auto", scorer_used |-> "auto"]
PipelineDetails(details) ==
  Dict((IF Truthy(details) THEN details.keys ELSE {}) \cup {"logs_path", "workspace"})
LogsAndWorkspace == PipelineDetails(DNone)
api_pipeline(ret) ==
  IF ret.k = "ret"
    THEN IF "error" \in DOMAIN ret.val /\ ret.val.error # NullVal
           THEN [http |-> 400,
                 body |-> api_make_error_response(
                            ret.val.error.code, ret.val.error.message,
                            ret.val.error.stage,
                            IF "details" \in DOMAIN ret.val.error
                              THEN ret.val.error.details ELSE DNone)]
         ELSE Http200(make_success_response(
                        [result |-> ret.val, workspace |-> "ws"], PipelineMeta))
  ELSE IF ret.k = "typed"
    THEN [http |-> 400,
          body |-> api_make_error_response(ret.code, ret.message, "pipeline",
                                           PipelineDetails(ret.details))]
  ELSE [http |-> 500,
        body |-> api_make_error_response("PIPELINE_ERROR", ret.message, "pipeline",
                                         LogsAndWorkspace)]

ApiRespond ==
  /\ pl.pc = "respond"
  /\ pl' = [pl EXCEPT !.pc = "done", !.resp = api_pipeline(pl.ret)]
  /\ UNCHANGED <<taskVars, apiVars, hp, lateVars, regVars, ex, sch, vw, sco>>

\* the caller has its answer; the files of the workspace stay
PipeReturn ==
  /\ pl.pc = "done"
  /\ pl' = NoPipeline
  /\ UNCHANGED <<taskVars, apiVars, hp, lateVars, regVars, ex, sch, vw, sco>>

\* a scorer module is imported: its decorator registers the class
Register(name) ==
  /\ ~Registered(name)
  /\ scorers' = register(scorers, name, Class(name, 1))
  /\ UNCHANGED <<taskVars, apiVars, hp, lateVars, ex, pipeVars,
                 loaded_files, watchers, watch_enabled, disk, ld, wt, seen, dirty>>

\* between two calls the predictions of the workspace are replaced
Predict ==
  /\ pl.pc = "idle"
  /\ sco.pred < MaxPred
  /\ sco' = [sco EXCEPT !.pred = @ + 1]
  /\ UNCHANGED <<taskVars, apiVars, hp, lateVars, regVars, ex, sch, vw, pl>>

(***************************************************************************)
(* utils/task_store.py on its own: upsert called with the argument shapes  *)
(* of its callers, at most MaxUpserts times.                               *)
(***************************************************************************)
ResultDoc == [result |-> "Result", workspace |-> "ws"]
ErrorDoc == [code |-> "EXEC_ERROR", message |-> "boom", details |-> "details"]
\* api/server.py:724
SubmittedCall ==
  [action |-> "run", workspace |-> W1, state |-> "SUBMITTED",
   result |-> NullVal, error |-> NullVal, finished |-> FALSE]
\* celery_app/tasks.py:164
StartedCall ==
  [action |-> "score", workspace |-> W2, state |-> "STARTED",
   result |-> NullVal, error |-> NullVal, finished |-> FALSE]
\* celery_app/tasks.py:118
SuccessCall ==
  [action |-> NoStr, workspace |-> NoPath, state |-> "SUCCESS",
   result |-> ResultDoc, error |-> NullVal, finished |-> TRUE]
\* celery_app/tasks.py:136
FailureCall ==
  [action |-> NoStr, workspace |-> NoPath, state |-> "FAILURE",
   result |-> NullVal, error |-> ErrorDoc, finished |-> TRUE]
\* api/server.py:750
StateCall ==
  [action |-> NoStr, workspace |-> NoPath, state |-> "RETRY",
   result |-> NullVal, error |-> NullVal, finished |-> FALSE]
UpsertCalls == {SubmittedCall, StartedCall, SuccessCall, FailureCall, StateCall}

RECURSIVE upserts_done(_, _)
\* the number of upserts made so far: each one advances the clock of its record
upserts_done(st, ids) ==
  IF ids = {} THEN 0
  ELSE LET id == CHOOSE i \in ids : TRUE
       IN  st[id].updated_at + upserts_done(st, ids \ {id})

StoreUpsert(id, c) ==
  /\ upserts_done(store, TaskIds) < MaxUpserts
  /\ store' = upsert(store, id, c.action, c.workspace, c.state, c.result,
                     c.error, c.finished)
  /\ UNCHANGED <<nextId, tasks, wpc, orch, broker, cbLog, apiVars, hp, extVars>>

(***************************************************************************)
(* executor/docker_executor.py: the paths of DockerExecutor.run.  A path   *)
(* is a sequence of characters, because the test for a root is a prefix    *)
(* test on strings; a file is a pair of its directory and its name.        *)
(***************************************************************************)
startswith(s, prefix) ==
  Len(prefix) <= Len(s) /\ SubSeq(s, 1, Len(prefix)) = prefix

Slash == <<"/">>
RECURSIVE resolve(_)
\* Path(...).resolve() of an absolute path without symbolic links or dots:
\* repeated slashes are collapsed and a trailing slash is dropped
resolve(s) ==
  IF Len(s) <= 1 THEN s
  ELSE IF s[1] = "/" /\ s[2] = "/" THEN resolve(Tail(s))
  ELSE IF Len(s) = 2 /\ s[2] = "/" THEN <<s[1]>>
  ELSE <<s[1]>> \o resolve(Tail(s))

join(dir, name) == dir \o Slash \o name

NoEnv == <<>>
App == <<"/", "a">>
AppSlash == <<"/", "a", "/">>
DataExamples == <<"/", "d">>
AppExamples == <<"/", "a", "/", "x">>
HostProject == <<"/", "h">>
HostProjectSlash == <<"/", "h", "/">>
HostExamples == <<"/", "e">>
Examples == <<"x">>
\* os.environ: an unset variable is NoEnv
Environments ==
  [CONTAINER_PROJECT_ROOT : {NoEnv, AppSlash},
   HOST_PROJECT_ROOT : {NoEnv, HostProject, HostProjectSlash},
   CONTAINER_EXAMPLES_ROOT : {NoEnv, AppExamples},
   HOST_EXAMPLES_ROOT : {NoEnv, HostExamples}]
environ_get(env, name, default) == IF env[name] = NoEnv THEN default ELSE env[name]

UnixUrls == {LocalSock}
BaseUrls == {LocalSock, "tcp://d"}
\* workspaces under /a, under /a2, under /a/x, under /d and elsewhere
RunWorkspaces ==
  {<<"/", "a", "/", "w">>, <<"/", "a", "2", "/", "w">>,
   <<"/", "a", "/", "x", "/", "w">>, <<"/", "d", "/", "w">>, <<"/", "u", "/", "w">>}

\* ws_host of run, for the resolved workspace ws
host_path(url, env, ws) ==
  LET container_project == environ_get(env, "CONTAINER_PROJECT_ROOT", App)
      host_project == env.HOST_PROJECT_ROOT
      container_examples == environ_get(env, "CONTAINER_EXAMPLES_ROOT", DataExamples)
      host_examples ==
        IF env.HOST_EXAMPLES_ROOT # NoEnv THEN env.HOST_EXAMPLES_ROOT
        ELSE IF host_project # NoEnv THEN join(host_project, Examples)
        ELSE NoEnv
  IN  IF url \notin UnixUrls THEN ws
      ELSE IF host_project # NoEnv /\ startswith(ws, container_project \o Slash)
        THEN resolve(host_project \o SubSeq(ws, Len(container_project) + 1, Len(ws)))
      ELSE IF host_examples # NoEnv /\ startswith(ws, container_examples \o Slash)
        THEN resolve(host_examples \o SubSeq(ws, Len(container_examples) + 1, Len(ws)))
      ELSE ws

Input == <<"input">>
Output == <<"output">>
Logs == <<"logs">>
MetaJson == <<"meta.json">>
ContainerLog == <<"container.log">>
RunInfoJson == <<"run_info.json">>
mounts(ws_host) ==
  [input |-> resolve(join(ws_host, Input)),
   output |-> resolve(join(ws_host, Output)),
   meta |-> resolve(join(ws_host, MetaJson))]

NoEnvironment ==
  [CONTAINER_PROJECT_ROOT |-> NoEnv, HOST_PROJECT_ROOT |-> NoEnv,
   CONTAINER_EXAMPLES_ROOT |-> NoEnv, HOST_EXAMPLES_ROOT |-> NoEnv]
NoMounts == [input |-> NoPath, output |-> NoPath, meta |-> NoPath]
NoLogs == [http |-> 0, path |-> NoPath]
NoMount ==
  [pc |-> "idle", base_url |-> LocalSock, env |-> NoEnvironment, ws |-> NoPath,
   logs_dir |-> NoPath, mounts |-> NoMounts, files |-> {}, got |-> NoLogs]

\* run up to the mounts: the paths and the two directories made
RunPaths(url, env, ws) ==
  /\ mnt.pc = "idle"
  /\ LET ws_host == host_path(url, env, ws)
         logs_dir == resolve(join(ws_host, Logs))
     IN  mnt' = [mnt EXCEPT !.pc = "mounted", !.base_url = url, !.env = env,
                            !.ws = ws, !.logs_dir = logs_dir,
                            !.mounts = mounts(ws_host),
                            !.files = {logs_dir, resolve(join(ws_host, Output))},
                            !.got = NoLogs]
  /\ UNCHANGED <<taskVars, apiVars, hp, regVars, ex, pipeVars, us>>

\* the image is there: run_info.json is written
RunInfo ==
  /\ mnt.pc = "mounted"
  /\ mnt' = [mnt EXCEPT !.pc = "created",
                        !.files = @ \cup {join(mnt.logs_dir, RunInfoJson)}]
  /\ UNCHANGED <<taskVars, apiVars, hp, regVars, ex, pipeVars, us>>

\* the container was waited for: container.log is written
RunLog ==
  /\ mnt.pc = "created"
  /\ mnt' = [mnt EXCEPT !.pc = "waited",
                        !.files = @ \cup {join(mnt.logs_dir, ContainerLog)}]
  /\ UNCHANGED <<taskVars, apiVars, hp, regVars, ex, pipeVars, us>>

\* GET /logs?workspace=ws after the run
get_logs ==
  /\ mnt.pc = "waited"
  /\ LET logf == join(join(mnt.ws, Logs), ContainerLog)
     IN  mnt' = [mnt EXCEPT !.pc = "read",
                   !.got = [http |-> IF logf \in mnt.files THEN 200 ELSE 404,
                            path |-> logf]]
  /\ UNCHANGED <<taskVars, apiVars, hp, regVars, ex, pipeVars, us>>

\* the next run starts on a fresh workspace
RunAgain ==
  /\ mnt.pc = "read"
  /\ mnt' = NoMount
  /\ UNCHANGED <<taskVars, apiVars, hp, regVars, ex, pipeVars, us>>

(***************************************************************************)
(* utils/task_store.py: upsert run by concurrent processes.  The           *)
(* connection is in autocommit mode, so the SELECT and the INSERT or       *)
(* UPDATE are two transactions and other statements run between them.      *)
(***************************************************************************)
Processes == 1..MaxProcesses
NoUpsert == [pc |-> "idle", id |-> 0, call |-> StateCall, exists |-> FALSE]
UpsertEnded == {"returned", "raised"}

\* SELECT task_id FROM tasks WHERE task_id=?
UpsertSelect(p, id, c) ==
  /\ us[p].pc = "idle"
  /\ upserts_done(store, TaskIds)
       + Cardinality({q \in Processes : us[q].pc = "selected"}) < MaxUpserts
  /\ us' = [us EXCEPT ![p] = [pc |-> "selected", id |-> id, call |-> c,
                              exists |-> store[id].exists]]
  /\ UNCHANGED <<taskVars, apiVars, hp, regVars, ex, pipeVars, mnt>>

\* the INSERT, which the primary key rejects when the row has appeared since
\* the SELECT (sqlite3.IntegrityError), or the UPDATE
UpsertWrite(p) ==
  /\ us[p].pc = "selected"
  /\ LET id == us[p].id
         c == us[p].call
     IN  IF ~us[p].exists /\ store[id].exists
           THEN /\ us' = [us EXCEPT ![p].pc = "raised"]
                /\ UNCHANGED store
           ELSE /\ us' = [us EXCEPT ![p].pc = "returned"]
                /\ store' = upsert(store, id, c.action, c.workspace, c.state,
                                   c.result, c.error, c.finished)
  /\ UNCHANGED <<nextId, tasks, wpc, orch, broker, cbLog>>
  /\ UNCHANGED <<apiVars, hp, regVars, ex, pipeVars, mnt>>

\* the caller goes on
UpsertEnd(p) ==
  /\ us[p].pc \in UpsertEnded
  /\ us' = [us EXCEPT ![p] = NoUpsert]
  /\ UNCHANGED <<taskVars, apiVars, hp, regVars, ex, pipeVars, mnt>>

(***************************************************************************)
(* The specifications.                                                     *)
(***************************************************************************)
Init ==
  /\ nextId = 1
  /\ tasks = [t \in TaskIds |-> NoTask]
  /\ wpc = [t \in TaskIds |-> "none"]
  /\ orch = [t \in TaskIds |-> NoOrch]
  /\ broker = [t \in TaskIds |-> Pending]
  /\ store = [t \in TaskIds |-> NoRecord]
  /\ cbLog = [t \in TaskIds |-> NoEnvelope]
  /\ sub = [h \in Handlers |-> IdleH]
  /\ lastResp = NoResponse
  /\ qry = NoQuery
  /\ lastStatus = NoResponse
  /\ nq = 0
  /\ hp = NoPost
  /\ scorers = [n \in ScorerNames |-> NoClass]
  /\ loaded_files = [p \in Paths |-> 0]
  /\ watchers = [p \in Paths |-> 0]
  /\ watch_enabled = TRUE
  /\ disk = [mtime |-> 1, content |-> GoodBody]
  /\ ld = [t \in Threads |-> IdleNoResult]
  /\ wt = [t \in WatcherIds |-> NoWatcher]
  /\ seen = [n \in ScorerNames |-> NoClass]
  /\ dirty = [p \in Paths |-> FALSE]
  /\ ex = NoRun
  /\ sch = NoScheduler
  /\ vw = NoValidation
  /\ pl = NoPipeline
  /\ sco = NoScoring
  /\ mnt = NoMount
  /\ us = [p \in Processes |-> NoUpsert]

\* the steps of the submit handlers H, for requests drawn from A, W and C and
\* broker inspections that answer (TRUE) or fail (FALSE) drawn from I, while
\* fewer than cap tasks have been sent
Submit(H, A, W, C, I, cap) ==
  \E h \in H :
    \/ \E a \in A, w \in W, cb \in C, inspOk \in I :
         SubmitInspect(h, a, w, cb, inspOk, cap)
    \/ SubmitSend(h)
    \/ SubmitPersist(h)

\* the stage outcomes a job can meet: run_job has no scoring stage, score_job
\* no run stage, and only run_and_score writes the error document
Scenarios(name, R, S, WR) ==
  CASE name = "autoscorer.run_job" -> {<<r, StageOk, TRUE>> : r \in R}
    [] name = "autoscorer.score_job" -> {<<StageOk, s, TRUE>> : s \in S}
    [] OTHER -> R \X S \X WR

\* the steps of the workers, with stage outcomes drawn from R, S and WR
Worker(R, S, WR) ==
  \E t \in TaskIds :
    \/ WorkerStart(t)
    \/ \E sc \in Scenarios(tasks[t].name, R, S, WR) : WorkerExec(t, sc[1], sc[2], sc[3])
    \/ WorkerPersist(t)
    \/ WorkerFinish(t)

Status ==
  \/ \E t \in TaskIds, brOk \in BOOLEAN : StatusBegin(t, brOk)
  \/ \E brOk \in BOOLEAN : StatusFinish(brOk)

PostOutcomes == {"ok"} \cup PostFailures
OkOnly == {StageOk}
StatusRunOutcomes == {StageOk, StageTyped("CONTAINER_EXIT_NONZERO", DNone)}

Callback ==
  \/ \E haveRequests \in BOOLEAN : PostCall(haveRequests)
  \/ \E out \in PostOutcomes : PostRequests(out)
  \/ \E out \in PostOutcomes : PostUrllib(out)

\* concurrent submit handlers and workers
Next ==
  \/ Submit(Handlers, Actions, Workspaces, {"None"}, BOOLEAN, MaxTasks)
  \/ Worker(OkOnly, OkOnly, {TRUE})

Spec == Init /\ [][Next]_vars

\* one submit handler and the workers, for every action, callback and stage
\* outcome; the broker inspection is down, so that no submit is answered as a
\* duplicate
NextWorker ==
  \/ Submit({1}, Actions, {W1}, CallbackUrls, {FALSE}, MaxJobs)
  \/ Worker(RunOutcomes, ScoreOutcomes, BOOLEAN)

SpecWorker == Init /\ [][NextWorker]_vars

\* one submit handler after the other, on either workspace
NextDedup ==
  \/ Submit({1}, Actions, Workspaces, {"None"}, BOOLEAN, MaxJobs)
  \/ Worker(OkOnly, OkOnly, {TRUE})

SpecDedup == Init /\ [][NextDedup]_vars

\* one submit handler, workers and status queries
NextStatus ==
  \/ Submit({1}, {"run"}, {W1}, {"None"}, BOOLEAN, MaxJobs)
  \/ Worker(StatusRunOutcomes, OkOnly, {TRUE})
  \/ Status

SpecStatus == Init /\ [][NextStatus]_vars

SpecCallback == Init /\ [][Callback]_vars

\* the steps of load_from_file in the threads T
Load(T) ==
  \E t \in T :
    \/ LoadExec(t)
    \/ LoadRegister(t)
    \/ LoadRecord(t)

\* calls of load_from_file and reload_file, lookups, and rewrites of the file
NextRegistry ==
  \/ \E l \in Loaders, p \in Paths, force \in BOOLEAN : LoadBegin(l, p, force)
  \/ Load(Loaders)
  \/ List
  \/ \E body \in Bodies : Modify(body)

SpecRegistry == Init /\ [][NextRegistry]_vars

\* loads and reloads of the scorer file while it is rewritten with good bodies
NextReload ==
  \/ \E l \in Loaders, force \in BOOLEAN : LoadBegin(l, ScorerFile, force)
  \/ Load(Loaders)
  \/ Modify(GoodBody)

SpecReload == Init /\ [][NextReload]_vars

\* the steps of the watcher thread t
WatchThread(t) ==
  \/ WatchCheck(t)
  \/ WatchPoll(t)
  \/ WatchReload(t)
  \/ WatchResume(t)
  \/ Load({t})

\* watching the scorer file while it is rewritten; every watcher thread that
\* can take a step is eventually scheduled
NextWatch ==
  \/ StartWatching(ScorerFile)
  \/ StopWatching(ScorerFile)
  \/ StopAllWatching
  \/ \E t \in WatcherIds : WatchThread(t)
  \/ Modify(GoodBody)

SpecWatch == Init /\ [][NextWatch]_vars /\ \A t \in WatcherIds : WF_vars(WatchThread(t))

\* one run of the executor, for every policy, local image state, workspace
\* tarballs and engine answer
NextExecutor ==
  \/ \E policy \in PullPolicies, found \in BOOLEAN, tars \in Tarballs :
       ExecResolve(policy, found, tars)
  \/ \E out \in PullOutcomes, getOk \in BOOLEAN : ExecPull(out, getOk)
  \/ ExecOffline
  \/ \E createOk \in BOOLEAN : ExecCreate(createOk)
  \/ \E out \in WaitOutcomes : ExecWait(out)
  \/ \E logsOk \in BOOLEAN, inspectOk \in BOOLEAN : ExecLogs(logsOk, inspectOk)

SpecExecutor == Init /\ [][NextExecutor]_vars

\* one Scheduler for every configuration and every answer of the executors'
\* constructors
NextScheduler ==
  \/ \E use_k8s \in BOOLEAN, docker_host \in DockerHosts, enable_nodes \in BOOLEAN,
        nodes \in NodeLists :
       SchedulerInit(use_k8s, docker_host, enable_nodes, nodes)
  \/ \E out \in K8sOutcomes : SelectCluster(out)
  \/ \E initOk \in BOOLEAN : SelectDocker(initOk)

SpecScheduler == Init /\ [][NextScheduler]_vars

\* one call of validate_workspace: every layout with a well-formed manifest,
\* and every manifest in a well-formed workspace
NextValidate ==
  \/ \E ws \in Layouts, mk \in MkdirOutcomes : Validate(ws, mk, GoodManifest)
  \/ \E meta \in Manifests : Validate(GoodLayout, "ok", meta)

SpecValidate == Init /\ [][NextValidate]_vars

\* the steps of one call of an entry point of E on a workspace of W with a
\* manifest of M
Pipe(E, W, M) ==
  \/ \E entry \in E, scorer \in ScorerNames, ws \in W, meta \in M, wsExists \in BOOLEAN :
       PipeBegin(entry, scorer, ws, meta, wsExists)
  \/ \E mk \in MkdirOutcomes : PipeValidate(mk)
  \/ PipeParse
  \/ \E out \in ExecutorResults : PipeExecute(out)
  \/ ScoreParse
  \/ ScoreResolve
  \/ \E out \in HookOutcomes : ScoreHook(out)
  \/ \E out \in ComputeOutcomes : ScoreCompute(out)
  \/ \E t \in Timings, saveOk \in BOOLEAN : ScoreSave(t, saveOk)
  \/ \E wr \in BOOLEAN : PipeHandle(wr)
  \/ ApiRespond

\* one call of any entry point, while scorers are registered
NextPipeline ==
  \/ Pipe(Entries, PipeLayouts, PipeManifests)
  \/ \E name \in ScorerNames : Register(name)

SpecPipeline == Init /\ [][NextPipeline]_vars

\* score_only called up to MaxCalls times on one well-formed workspace whose
\* predictions may be replaced between the calls
NextScoreAgain ==
  \/ \E scorer \in ScorerNames :
       PipeBegin("score_only", scorer, GoodLayout, GoodManifest, TRUE)
  \/ ScoreParse
  \/ ScoreResolve
  \/ \E out \in HookOutcomes : ScoreHook(out)
  \/ \E out \in ComputeOutcomes : ScoreCompute(out)
  \/ \E t \in Timings, saveOk \in BOOLEAN : ScoreSave(t, saveOk)
  \/ PipeReturn
  \/ Predict
  \/ \E name \in ScorerNames : Register(name)

SpecScoreAgain == Init /\ [][NextScoreAgain]_vars

\* the task store on its own: upsert called with the argument shapes of its
\* callers, at most MaxUpserts times
NextStore == \E id \in TaskIds, c \in UpsertCalls : StoreUpsert(id, c)

SpecStore == Init /\ [][NextStore]_vars

\* one run of the executor after another, for every engine address,
\* environment and workspace, each followed by GET /logs
NextMounts ==
  \/ \E url \in BaseUrls, env \in Environments, ws \in RunWorkspaces :
       RunPaths(url, env, ws)
  \/ RunInfo
  \/ RunLog
  \/ get_logs
  \/ RunAgain

SpecMounts == Init /\ [][NextMounts]_vars

\* one job submitted with a callback url, the workers, and status queries
\* that begin once the job's callback has been posted
StatusAfterCallback ==
  \/ \E t \in TaskIds : cbLog[t] # NoEnvelope /\ StatusBegin(t, TRUE)
  \/ StatusFinish(TRUE)

NextNotified ==
  \/ Submit({1}, Actions, {W1}, {"url"}, {FALSE}, MaxJobs)
  \/ Worker(RunOutcomes, ScoreOutcomes, BOOLEAN)
  \/ StatusAfterCallback

SpecNotified == Init /\ [][NextNotified]_vars

\* up to MaxTasks jobs on one workspace, submitted with or without a callback
\* url; a failing stage raises with the details of a validation failure
\* pipeline.py:37 and pipeline.py:93-97
DetailedRun == StageTyped("MISSING_FILE", Dict({"all_errors"}))
DetailedScore == StageTyped("SCORER_NOT_FOUND", Dict({"requested_scorer"}))
RunOrDetails == {StageOk, DetailedRun}
ScoreOrDetails == {StageOk, DetailedScore}
NextTwoRuns ==
  \/ Submit({1}, Actions, {W1}, CallbackUrls, {FALSE}, MaxTasks)
  \/ Worker(RunOrDetails, ScoreOrDetails, {TRUE})

SpecTwoRuns == Init /\ [][NextTwoRuns]_vars

\* one run of the executor after another, IMAGE_PULL_POLICY being one of the
\* recognized values or any other string
ConfiguredPolicies == PullPolicies \cup {"sometimes"}
NextAnyPolicy ==
  \/ \E policy \in ConfiguredPolicies, found \in BOOLEAN, tars \in Tarballs :
       ExecResolve(policy, found, tars)
  \/ \E out \in PullOutcomes, getOk \in BOOLEAN : ExecPull(out, getOk)
  \/ ExecOffline
  \/ \E createOk \in BOOLEAN : ExecCreate(createOk)
  \/ \E out \in WaitOutcomes : ExecWait(out)
  \/ \E logsOk \in BOOLEAN, inspectOk \in BOOLEAN : ExecLogs(logsOk, inspectOk)

SpecAnyPolicy == Init /\ [][NextAnyPolicy]_vars

\* the processes (the API server, the workers) call upsert concurrently
NextUpserts ==
  \/ \E p \in Processes, id \in TaskIds, c \in UpsertCalls : UpsertSelect(p, id, c)
  \/ \E p \in Processes : UpsertWrite(p)
  \/ \E p \in Processes : UpsertEnd(p)

SpecUpserts == Init /\ [][NextUpserts]_vars

(***************************************************************************)
(* Properties.                                                             *)
(***************************************************************************)

\* C1 (as stated): the state stored for a task only moves forward along
\* SUBMITTED -> STARTED -> {SUCCESS, FAILURE, REVOKED}: the record is created
\* as SUBMITTED, and no write stores an earlier state than the one stored.
C1_StateOnlyMovesForward ==
  [][\A t \in TaskIds :
       /\ (~store[t].exists /\ store'[t].exists) => store'[t].state = "SUBMITTED"
       /\ store[t].exists => StateRank(store'[t].state) >= StateRank(store[t].state)
    ]_vars

\* C2 (as stated): every record has finished_at set iff its state is SUCCESS,
\* FAILURE or REVOKED, and updated_at is not earlier than created_at.
C2_FinishedIffTerminal ==
  \A t \in TaskIds :
    store[t].exists =>
      /\ (store[t].finished_at # 0) <=> (store[t].state \in Terminal)
      /\ store[t].updated_at >= store[t].created_at

\* C3 (as stated): at every moment at most one task per workspace is in
\* flight, enqueued or executing.
C3_AtMostOneInFlight ==
  \A w \in Workspaces : Cardinality(InFlight(w)) <= 1

\* C4: a Submit that finds an in-flight task answers {submitted: false,
\* running: true, task_id} with the id of a task the inspection reported for
\* its workspace, sends no task and writes no record; a Submit that finds none
\* sends exactly one task and then writes exactly one record, SUBMITTED, under
\* the new task's id, which is the id it answers with.
Sent == {t \in TaskIds : wpc[t] # "none"}
DedupAnswer(resp) == resp.body.ok /\ ~resp.body.data.submitted
SubmittedAnswer(resp) == resp.body.ok /\ resp.body.data.submitted

TypedCodes == {"CONTAINER_EXIT_NONZERO", "SCORER_NOT_FOUND"}
FailedTyped(o) ==
  \/ o.k = "typed"
  \/ /\ o.k = "ret"
     /\ \/ "code" \in DOMAIN o.val /\ o.val.code \in TypedCodes
        \/ "error" \in DOMAIN o.val /\ o.val.error.code \in TypedCodes

C5_TypedFailureIsFailure ==
  [][\A t \in TaskIds :
       FailedTyped(orch'[t]) =>
         /\ (wpc[t] = "started" /\ wpc'[t] = "called"
               /\ tasks[t].callback_url # "None") => ~cbLog'[t].ok
         /\ (wpc[t] = "called" /\ wpc'[t] = "persisted") =>
               /\ store'[t].state = "FAILURE"
               /\ store'[t].error # NullVal
               /\ store'[t].error.code \in TypedCodes
         /\ (wpc[t] = "persisted" /\ wpc'[t] # "persisted") =>
               /\ wpc'[t] = "raised"
               /\ broker'[t].state = "FAILURE"
    ]_vars

ErrorFields == {"code", "message", "stage", "details"}

\* C6 (as stated): the error a worker persists on a typed failure has the four
\* fields code, message, stage and details, equal to those of the error
\* envelope posted to the callback.
C6_PersistedErrorIsEnvelope ==
  [][\A t \in TaskIds :
       (orch[t].k = "typed" /\ wpc[t] = "called" /\ wpc'[t] = "persisted") =>
         LET e == store'[t].error
         IN  /\ DOMAIN e = ErrorFields
             /\ tasks[t].callback_url # "None" =>
                  /\ e.code = cbLog[t].error.code
                  /\ e.message = cbLog[t].error.message
                  /\ e.stage = cbLog[t].error.stage
                  /\ e.details = cbLog[t].error.details
    ]_vars

C8_AtMostThreePosts ==
  /\ Len(hp.log) <= 3
  /\ \A i \in 1..(Len(hp.log) - 1) : hp.log[i][2] # "ok"
  /\ hp.attempt <= 3

\* C9 (as stated): a status query for a task the broker reports ready writes
\* the broker's terminal state and payload to the store with finished_at set
\* and returns that state; a query for a task not ready writes nothing and
\* returns the persisted state and result (or error), or the broker state when
\* there is no record.  Queries that the broker failed are C10's.
BrokerFailed(resp) ==
  /\ resp.body.ok
  /\ "result" \in DOMAIN resp.body.data
  /\ resp.body.data.result = [error |-> BrokerError]

C9_StatusReconciles ==
  [][(qry.pc = "read" /\ qry'.pc = "idle" /\ ~BrokerFailed(lastStatus')) =>
       LET t == qry.tid
           b == broker[t]
           d == lastStatus'.body.data
       IN  IF b.state \in Terminal
             THEN /\ store'[t].exists
                  /\ store'[t].state = b.state
                  /\ store'[t].finished_at # 0
                  /\ store'[t].finished_at = store'[t].updated_at
                  /\ b.state = "SUCCESS" => store'[t].result = b.payload
                  /\ b.state # "SUCCESS" => store'[t].error # NullVal
                  /\ d.state = b.state
             ELSE /\ store' = store
                  /\ IF store[t].exists
                       THEN /\ d.state = store[t].state
                            /\ d.result \in {store[t].result, store[t].error}
                       ELSE d.state = b.state
    ]_vars

\* C10 (as stated): whatever the broker does during a status query, the query
\* answers with a success envelope that carries a state.
C10_BrokerFailureHandled ==
  lastStatus.http # 0 =>
    /\ lastStatus.http = 200
    /\ lastStatus.body.ok
    /\ "state" \in DOMAIN lastStatus.body.data

\* C11 (as stated): a call of load_from_file or reload_file that fails leaves
\* the registry's name-to-class map and its recorded mtimes as they were
\* before the call: the failing step changes neither, and the call has
\* registered nothing before it.
C11_FailedLoadChangesNothing ==
  [][\A t \in Threads :
       (ld'[t] # ld[t] /\ ld'[t].pc = "idle" /\ ld'[t].res.kind = "raise") =>
         /\ scorers' = scorers
         /\ loaded_files' = loaded_files
         /\ ld[t].loaded = {}
    ]_vars

\* C12 (as stated): no lookup made while a load registers a file of two or
\* more scorers finds some of the file's scorers registered and others not yet.
C12_NoHalfRegisteredFile ==
  [][seen' # seen =>
       \A t \in Threads :
         ld[t].pc = "register" => ~(ld[t].loaded # {} /\ ld[t].todo # <<>>)
    ]_vars

\* C13: once a load of the file has succeeded and the mtime on disk is the
\* recorded one, a load without force returns an empty mapping and changes
\* neither the registry nor the recorded mtime, a load with force goes on to
\* execute the file, and a forced load that returns has registered the file's
\* scorers.
C13_UnmodifiedLoadIsNoOp ==
  [][/\ \A l \in Loaders, p \in Paths :
          (loaded_files[p] # 0 /\ disk.mtime = loaded_files[p]) =>
            /\ LoadBegin(l, p, FALSE) =>
                 /\ ld'[l] = Skipped
                 /\ scorers' = scorers
                 /\ loaded_files' = loaded_files
            /\ LoadBegin(l, p, TRUE) => ld'[l].pc = "exec"
     /\ \A t \in Threads :
          (ld[t].force /\ LoadRecord(t)) =>
            /\ ld'[t].res = Returns(ld[t].loaded)
            /\ ld[t].loaded # {}
            /\ \A n \in ld[t].loaded : scorers'[n] # NoClass
    ]_vars

\* a load without force was skipped: the file is recorded at the mtime it has
\* on disk and both its scorers are registered
C13_Witness ==
  /\ ld[1] = Skipped
  /\ loaded_files[ScorerFile] = disk.mtime
  /\ \A n \in ScorerNames : scorers[n] # NoClass

\* C14 (as stated): while the file is watched, every rewrite of it made after
\* start_watching returned is eventually followed by a re-execution of the
\* file, and the first observation of a watcher starts no reload.
C14_ModificationIsReloaded ==
  /\ [](dirty[ScorerFile] => <>(~dirty[ScorerFile]))
  /\ [][\A t \in WatcherIds :
          (wt[t].pc = "poll" /\ wt[t].last_mtime = 0) => wt'[t].pc # "reload"]_vars

\* C15 (as stated): a watcher thread whose path was stopped terminates at its
\* next wake-up, whatever the registry was asked since.
C15_StoppedWatcherTerminates ==
  [][\A t \in WatcherIds :
       (wt[t].stopped /\ wt[t].pc = "check" /\ wt'[t].pc # "check") => wt'[t].pc = "dead"
    ]_vars

\* C16: one run attempts at most three pulls and none after a successful
\* one; it attempts none under policy never, nor under ifnotpresent when the
\* image was found locally; under always it attempts one even when the image
\* was found locally.
AllPullsFailed ==
  /\ Len(ex.pulls) = 3
  /\ \A i \in 1..Len(ex.pulls) : ex.pulls[i] = "fail"

C16_PullAttempts ==
  /\ Len(ex.pulls) <= 3
  /\ \A i \in 1..(Len(ex.pulls) - 1) : ex.pulls[i] # "ok"
  /\ ex.policy = "never" => ex.pulls = <<>>
  /\ (ex.policy = "ifnotpresent" /\ ex.found) => ex.pulls = <<>>
  /\ (ex.policy = "always" /\ ~(ex.pc = "idle" \/ ex.pc = "pull")) => ex.pulls # <<>>

\* under policy always the image was found locally and still pulled three
\* times, the third time with success
C16_Witness ==
  /\ ex.policy = "always"
  /\ ex.found
  /\ Len(ex.pulls) = 3
  /\ ex.pulls[3] = "ok"
  /\ ex.action = "pulled"

\* C17: when every pull attempt has failed, the run goes on with action
\* loaded_tar if one of the workspace tarballs loads, else with action
\* use_local_fallback if the image was found locally before pulling, else it
\* fails with IMAGE_PULL_FAILED and creates no container.
SomeTarLoads == \E i \in 1..Len(TarNames) : ex.tars[i] = "loads"

C17_PullFallback ==
  (AllPullsFailed /\ ex.pc # "pull") =>
    IF SomeTarLoads
      THEN ex.action = "loaded_tar" /\ ex.res # PullFailed
    ELSE IF ex.found
      THEN ex.action = "use_local_fallback" /\ ex.res # PullFailed
    ELSE ex.res = PullFailed /\ ~ex.created

\* the first tarball did not load, the second did, and the container ran
C17_Witness ==
  /\ AllPullsFailed
  /\ ex.tars[1] = "fails"
  /\ ex.tars[2] = "loads"
  /\ ex.action = "loaded_tar"
  /\ ex.created

C19_ContainerRemoved ==
  (ex.res # NoOutcome /\ ex.created) => ex.removed

\* writing the log failed after the container had exited, and the container
\* was removed
C19_Witness ==
  /\ ex.created
  /\ ex.res = ExUntyped
  /\ ex.container_log = "absent"
  /\ ex.removed

\* C20 (as stated): when the wait times out, run fails with TIMEOUT_ERROR and
\* logs/container.log then holds the output captured from the container.
C20_TimeoutKeepsLog ==
  ex.res.kind # "none" /\ ex.res.code = "TIMEOUT_ERROR" =>
    ex.container_log = "captured"

\* C21 (as stated): the outcome of creating and waiting for the container
\* decides the result of run: exit status 0 returns with container.log
\* written, a non-zero status writes container.log and inspect.json and fails
\* with CONTAINER_EXIT_NONZERO, a timeout fails with TIMEOUT_ERROR, another
\* wait failure with CONTAINER_WAIT_FAILED, a failed create with
\* CONTAINER_CREATE_FAILED.
LogsStepEnds == ex.pc = "logs" /\ ex'.pc = "done"
CreateAndWaitMapping ==
  /\ ExecCreate(FALSE) => ex'.res = CreateFailed
  /\ ExecWait("timeout") => ex'.res = TimedOut
  /\ ExecWait("error") => ex'.res = WaitFailed
TopHosts(nodes) ==
  {nodes[i].host : i \in {j \in 1..Len(nodes) :
                            \A k \in 1..Len(nodes) : nodes[k].gpus <= nodes[j].gpus}}
DockerResults == {"docker", "raise"}
ClusterChosen == sch.use_k8s /\ sch.k8s = "ok"
Selected ==
  IF ClusterChosen THEN sch.res = K8sExecutor
  ELSE /\ sch.res.kind \in DockerResults
       /\ sch.res.kind = "raise" => sch.res = SchedulerError
       /\ sch.res.kind = "docker" =>
            IF sch.docker_host # NoHost THEN sch.res.url = sch.docker_host
            ELSE IF sch.enable_nodes /\ sch.nodes # <<>>
              THEN sch.res.url \in TopHosts(sch.nodes)
            ELSE sch.res.url = LocalSock
C22_ExecutorPrecedence ==
  [][ /\ sch.pc # "done" /\ sch'.pc = "done" => Selected'
      /\ SelectDocker(TRUE) => sch'.res.kind = "docker"
      /\ SelectDocker(FALSE) => sch'.res = SchedulerError ]_vars

C22_Witness ==
  /\ sch.pc = "done"
  /\ sch.use_k8s /\ sch.k8s = "error"
  /\ sch.docker_host = NoHost /\ sch.enable_nodes
  /\ Len(sch.nodes) = 2
  /\ sch.nodes[1].gpus < sch.nodes[2].gpus
  /\ sch.nodes[1].host # sch.nodes[2].host
  /\ sch.res = DockerExecutor(sch.nodes[2].host)

\* C25: whenever validate_workspace returns ok, output/ and logs/ are
\* writable directories of the workspace; and it returns not ok with a
\* MISSING_FILE error whenever input/ or meta.json is missing.
HasError(errors, code) == \E i \in 1..Len(errors) : errors[i].code = code
C25_AcceptedWorkspaceIsWritable ==
  vw.pc = "done" =>
    /\ vw.result.ok =>
         vw.result.after.output = "dir" /\ vw.result.after.logs = "dir"
    /\ vw.ws.input = "absent" \/ vw.ws.meta = "absent" =>
         ~vw.result.ok /\ HasError(vw.result.errors, "MISSING_FILE")

\* C26: validate_workspace returns ok only for manifests that satisfy every
\* JobSpec invariant (required fields and the container image present,
\* time_limit a positive integer, cpu > 0, gpus >= 0, memory and shm_size in
\* the size-string grammar, scorer registered), so an accepted workspace
\* parses as a JobSpec.
GrammarUnits == {"g", "G", "Gi", "m", "M", "Mi"}
InGrammar(v) == v.present => v.num /\ v.unit \in GrammarUnits
DefaultOrPositive == {"absent", "positive"}
NonNegative == {"absent", "zero", "positive"}
JobSpecInvariants(meta) ==
  /\ meta.json
  /\ meta.fields = AllFields
  /\ meta.container = "image"
  /\ meta.time_limit \in DefaultOrPositive
  /\ meta.cpu \in DefaultOrPositive
  /\ meta.gpus \in NonNegative
  /\ InGrammar(meta.memory)
  /\ InGrammar(meta.shm_size)
  /\ meta.registered
C26_AcceptedManifestIsJobSpec ==
  vw.pc = "done" /\ vw.result.ok =>
    /\ JobSpecInvariants(vw.meta)
    /\ JobSpec_from_workspace(vw.ws.meta, vw.meta) = "JobSpec"

\* C23: within one job the stages are strictly sequential: the executor is
\* never invoked unless workspace validation returned ok, in run_and_score
\* the scorer's validate and score are never invoked unless the container run
\* completed successfully, and a stage starts only after the stages before it
\* have ended.
ValidatedOk == Event("validate", TRUE)
RunOk == Event("run", TRUE)
ScorerStages == {"hook", "score"}
StageOrder == <<"validate", "run", "hook", "score">>
Rank(stage) == CHOOSE i \in 1..Len(StageOrder) : StageOrder[i] = stage
Before(i, e) == \E j \in 1..(i - 1) : pl.events[j] = e
C23_StagesSequential ==
  \A i \in 1..Len(pl.events) :
    /\ pl.events[i].stage = "run" => Before(i, ValidatedOk)
    /\ pl.entry \in Pipelines /\ pl.events[i].stage \in ScorerStages => Before(i, RunOk)
    /\ \A j \in 1..(i - 1) :
         /\ Rank(pl.events[j].stage) < Rank(pl.events[i].stage)
         /\ pl.events[j].ok

C23_Witness ==
  /\ pl.entry = "run_and_score"
  /\ pl.pc = "done"
  /\ Len(pl.events) = 4
  /\ \A i \in 1..4 : pl.events[i] = Event(StageOrder[i], TRUE)
  /\ pl.ret.k = "ret" /\ pl.ret.val.ok

\* C24: in score_only an unresolved scorer fails with SCORER_NOT_FOUND and
\* the list of available names, and a failing validate hook fails with the
\* hook's typed code (DATA_VALIDATION_ERROR for an untyped exception); in both
\* cases the scorer's score is never invoked and output/result.json is not
\* written.
PreScoreCodes == {"SCORER_NOT_FOUND", "DATA_VALIDATION_ERROR", "MISMATCH"}
FailedKinds == {"typed", "untyped"}
HookFailures == {o \in HookOutcomes : o.k \in FailedKinds}
NotScored ==
  /\ \A i \in 1..Len(pl.events) : pl.events[i].stage # "score"
  /\ pl.writes = 0
  /\ sco.result_json = Absent
ResolveFails == ScoreResolve /\ ~Registered(pl.scorer)
C24_ScoreOnlyFailsBeforeScoring ==
  /\ [][ /\ ResolveFails =>
              /\ pl'.s = ScorerNotFound
              /\ pl'.available = Available
              /\ pl'.pc # "score" /\ pl'.pc # "save"
         /\ \A out \in HookFailures :
              ScoreHook(out) =>
                /\ pl'.s.k = "typed"
                /\ pl'.s.code = IF out.k = "typed" THEN out.code
                                ELSE "DATA_VALIDATION_ERROR"
                /\ pl'.pc # "score" /\ pl'.pc # "save" ]_vars
  /\ [](pl.entry = "score_only" /\ pl.pc = "done" /\ pl.s.k = "typed"
          /\ pl.s.code \in PreScoreCodes
        => /\ pl.ret = RaiseTyped(pl.s.code, pl.s.message, pl.s.details)
           /\ NotScored)

OnlyHookFailed == <<Event("hook", FALSE)>>
C24_Witness ==
  /\ pl.entry = "score_only"
  /\ pl.pc = "done"
  /\ pl.ret.k = "typed"
  /\ pl.ret.code = "DATA_VALIDATION_ERROR"
  /\ pl.events = OnlyHookFailed
  /\ NotScored

\* C27: when run_and_score fails in the run stage or in the score stage, then
\* on return output/result.json exists and holds an error object whose stage
\* is the failing stage and whose code and message are those of the failure.
Failed(stage) == stage.k \in FailedKinds
ErrorDocument(doc, stage, failure) ==
  /\ doc # Absent
  /\ "error" \in DOMAIN doc
  /\ doc.error.stage = stage
  /\ doc.error.message = failure.message
  /\ failure.k = "typed" => doc.error.code = failure.code
C27_FailureIsPersisted ==
  pl.entry \in Pipelines /\ pl.ret.k = "ret" =>
    /\ Failed(pl.r) => ErrorDocument(sco.result_json, "run", pl.r)
    /\ Failed(pl.s) => ErrorDocument(sco.result_json, "score", pl.s)

\* C28: run_and_score never raises for a failure of the validation, run or
\* score stage, typed or untyped: it always returns a payload, with ok = true
\* and the result on success and an error description naming the failing
\* stage on failure.
Ended == {"ret", "typed", "untyped"}
C28_RunAndScoreNeverRaises ==
  pl.entry \in Pipelines /\ pl.ret.k \in Ended =>
    /\ pl.ret.k = "ret"
    /\ Failed(pl.r) => ~pl.ret.val.ok /\ pl.ret.val.stage = "run"
    /\ Failed(pl.s) => pl.ret.val.error.stage = "score"
    /\ pl.r.k = "ok" /\ pl.s.k = "ok" =>
         pl.ret.val.ok /\ "result" \in DOMAIN pl.ret.val

\* C29: POST /pipeline answers with the error envelope {ok: false, error:
\* {code, message, stage, details}} and a non-200 status whenever the run
\* stage or the score stage failed, and with the success envelope only when
\* both stages succeeded.
ErrorEnvelope(resp) ==
  /\ resp.http # 200
  /\ ~resp.body.ok
  /\ DOMAIN resp.body.error = ErrorFields
C29_PipelineAnswersFailureWithError ==
  pl.entry = "api_pipeline" /\ pl.pc = "done" /\ pl.ret.k \in Ended =>
    /\ Failed(pl.r) \/ Failed(pl.s) => ErrorEnvelope(pl.resp)
    /\ pl.resp.body.ok => pl.r.k = "ok" /\ pl.s.k = "ok"

\* C30: two calls of score_only in a row on the same workspace, with no
\* change to the inputs or predictions in between, yield the same summary,
\* the same metrics and the same sha-256 value for every artifact entry, the
\* result_json entry included.
SameInputs(a, b) == a.gt = b.gt /\ a.pred = b.pred
SameDigests(a, b) ==
  /\ DOMAIN a.artifacts = DOMAIN b.artifacts
  /\ \A n \in DOMAIN a.artifacts : a.artifacts[n].sha256 = b.artifacts[n].sha256
C30_ScoreOnlyIsIdempotent ==
  \A i \in 1..(Len(sco.calls) - 1) :
    SameInputs(sco.calls[i], sco.calls[i + 1]) =>
      /\ sco.calls[i].result.summary = sco.calls[i + 1].result.summary
      /\ sco.calls[i].result.metrics = sco.calls[i + 1].result.metrics
      /\ SameDigests(sco.calls[i].result, sco.calls[i + 1].result)

\* C31: an upsert on an existing task record changes only the fields passed
\* to it (action, workspace, state, result, error), always sets updated_at,
\* sets finished_at exactly when finished is true, and leaves created_at and
\* every field not passed unchanged; no record is ever removed, so the set of
\* stored task ids never shrinks.
Passed(c) ==
  [action |-> c.action # NoStr, workspace |-> c.workspace # NoPath,
   state |-> c.state # NoStr, result |-> c.result # NullVal,
   error |-> c.error # NullVal]
Columns == {"action", "workspace", "state", "result", "error"}
UpsertFrame(id, c) ==
  /\ \A o \in TaskIds : store[o].exists => store'[o].exists
  /\ \A o \in TaskIds \ {id} : store'[o] = store[o]
  /\ store[id].exists =>
       /\ \A f \in Columns :
            store'[id][f] = IF Passed(c)[f] THEN c[f] ELSE store[id][f]
       /\ store'[id].created_at = store[id].created_at
       /\ store'[id].updated_at > store[id].updated_at
       /\ store'[id].finished_at =
            IF c.finished THEN store'[id].updated_at ELSE store[id].finished_at
C31_UpsertChangesOnlyPassedFields ==
  [][\A id \in TaskIds, c \in UpsertCalls : StoreUpsert(id, c) => UpsertFrame(id, c)]_vars
\* a finished record whose action and workspace were written by an earlier call
C31_Witness ==
  \E id \in TaskIds :
    /\ store[id].state = "SUCCESS"
    /\ store[id].action = "score"
    /\ store[id].result = ResultDoc
    /\ store[id].created_at < store[id].finished_at
    /\ \E o \in TaskIds \ {id} : store[o].exists /\ store[o].finished_at = 0

\* C32: when the engine socket is local, the bind-mount sources are computed
\* from the workspace path as follows: if the host-project root is set and
\* the path lies under the container-project root, the container root prefix
\* is replaced by the host root; otherwise, if a host examples root is known
\* and the path lies under the container examples root, that prefix is
\* replaced likewise; otherwise the path is passed unchanged.  When the
\* engine is not local the path is passed unchanged.
Under(path, root) == startswith(path, resolve(root) \o Slash)
Replaced(path, root, host) ==
  resolve(host) \o SubSeq(path, Len(resolve(root)) + 1, Len(path))
KnownHostExamples(env) ==
  IF env.HOST_EXAMPLES_ROOT # NoEnv THEN env.HOST_EXAMPLES_ROOT
  ELSE IF env.HOST_PROJECT_ROOT # NoEnv THEN join(env.HOST_PROJECT_ROOT, Examples)
  ELSE NoEnv
ContainerProject(env) == environ_get(env, "CONTAINER_PROJECT_ROOT", App)
ContainerExamples(env) == environ_get(env, "CONTAINER_EXAMPLES_ROOT", DataExamples)
MountRoot(url, env, ws) ==
  IF url \notin UnixUrls THEN ws
  ELSE IF env.HOST_PROJECT_ROOT # NoEnv /\ Under(ws, ContainerProject(env))
    THEN Replaced(ws, ContainerProject(env), env.HOST_PROJECT_ROOT)
  ELSE IF KnownHostExamples(env) # NoEnv /\ Under(ws, ContainerExamples(env))
    THEN Replaced(ws, ContainerExamples(env), KnownHostExamples(env))
  ELSE ws
C32_MountSourcesFollowRoots ==
  mnt.pc # "idle" =>
    LET root == MountRoot(mnt.base_url, mnt.env, mnt.ws)
    IN  /\ mnt.mounts.input = join(root, Input)
        /\ mnt.mounts.output = join(root, Output)
        /\ mnt.mounts.meta = join(root, MetaJson)

\* C40: after every run in which the container was waited for successfully,
\* container.log and run_info.json are located in the logs/ directory of the
\* workspace path that was passed to run, the directory from which GET /logs
\* reads, also when path translation rewrites the bind-mount sources.
WaitedFor == {"waited", "read"}
C40_LogsAreInTheWorkspace ==
  /\ mnt.pc \in WaitedFor =>
       /\ join(join(mnt.ws, Logs), ContainerLog) \in mnt.files
       /\ join(join(mnt.ws, Logs), RunInfoJson) \in mnt.files
  /\ mnt.pc = "read" => mnt.got.http = 200

\* C33: a Submit for workspace W is answered as a duplicate only when an
\* in-flight task's workspace argument is exactly W: an in-flight task for a
\* different workspace, including one whose path merely contains W as a
\* substring, never causes the Submit for W to be rejected.
C33_DuplicateOnlyForSameWorkspace ==
  [][(lastResp' # lastResp /\ DedupAnswer(lastResp')) =>
       LET d == lastResp'.body.data
       IN  d.task_id \in Active /\ tasks[d.task_id].workspace = d.workspace]_vars

\* C34: once the terminal callback (success or failure) of a task has been
\* posted, every later status query for that task reports a terminal state
\* (SUCCESS, FAILURE or REVOKED), whether answered from the broker or from
\* the store.
C34_TerminalAfterCallback ==
  [][(qry.pc = "read" /\ qry'.pc = "idle" /\ cbLog[qry.tid] # NoEnvelope) =>
       lastStatus'.body.data.state \in Terminal]_vars

\* C35: the record a worker persists for a task (state, result, error with
\* its details) and the value it returns or the exception it raises are the
\* same whether or not a callback_url was supplied: two runs of the same job
\* that differ only in the callback end with equal task records.
WorkerEnded == {"returned", "raised"}
\* two finished tasks of one action on one workspace whose orchestrator calls
\* ended alike, and whose records still show what the worker wrote (the
\* submit handler's SUBMITTED write has not landed after it)
SameJob(a, b) ==
  /\ wpc[a] \in WorkerEnded /\ wpc[b] \in WorkerEnded
  /\ store[a].state \in Terminal /\ store[b].state \in Terminal
  /\ tasks[a].name = tasks[b].name
  /\ tasks[a].workspace = tasks[b].workspace
  /\ orch[a].k = orch[b].k /\ orch[a].code = orch[b].code /\ orch[a].val = orch[b].val
C35_CallbackDoesNotChangeTheRecord ==
  \A a \in TaskIds, b \in TaskIds :
    SameJob(a, b) =>
      /\ store[a].state = store[b].state
      /\ store[a].result = store[b].result
      /\ store[a].error = store[b].error
      /\ wpc[a] = wpc[b]
      /\ broker[a] = broker[b]

\* C36: at every moment at most one live watcher thread exists per watched
\* path, under any interleaving of start_watching and stop_watching calls,
\* also when a path is stopped and started again before the old thread has
\* woken up.
\* a thread is live once started and until its loop test fails; a stopped
\* thread that still sleeps before its next loop test is not counted
InLoop == {"poll", "reload", "loading"}
LiveWatchers(p) ==
  {t \in WatcherIds :
     /\ wt[t].path = p
     /\ wt[t].pc \in InLoop \/ (wt[t].pc = "check" /\ ~wt[t].stopped)}
C36_OneLiveWatcherPerPath ==
  \A p \in Paths : Cardinality(LiveWatchers(p)) <= 1

\* C37: for every value of the configured pull policy, recognized or not, the
\* executor attempts to create the container only after the image has been
\* obtained in this run, that is after the recorded action is one of
\* use_local, pulled, loaded_tar or use_local_fallback; when the image is
\* absent locally and is neither pulled nor loaded, the run fails with
\* IMAGE_PULL_FAILED or IMAGE_NOT_PRESENT before any container is created.
Obtained == {"use_local", "pulled", "loaded_tar", "use_local_fallback"}
Fetched == {"pulled", "loaded_tar"}
ImageFailures == {PullFailed, NotPresent}
\* run_info.json is written right before containers.run is called
CreateAttempted == ex.run_info # ""
C37_CreateOnlyWithImage ==
  /\ CreateAttempted => ex.action \in Obtained
  /\ ex.pc = "done" /\ ~ex.found /\ ex.action \notin Fetched =>
       ex.res \in ImageFailures /\ ~ex.created

\* C38 (as stated): after every successful score_only call, the size and
\* sha256 recorded under artifacts.result_json in output/result.json describe
\* the file output/result.json as it exists on disk when score_only returns.
C38_ResultJsonDescribesFileOnDisk ==
  sco.result_json # Absent =>
    sco.result_json.artifacts.result_json = file_info(sco.result_json)

\* C38 (amended): after every successful score_only call, the size and sha256
\* recorded under artifacts.result_json describe output/result.json as the
\* call wrote it first, that is the document on disk without its result_json
\* entry and without the times completed after that write.
FinalEntries == {"result_json"}
FinalTimes == {"save_time", "total_time"}
FirstWritten(doc) ==
  [doc EXCEPT !.artifacts = [n \in DOMAIN doc.artifacts \ FinalEntries |-> doc.artifacts[n]],
              !.timing = [n \in DOMAIN doc.timing \ FinalTimes |-> doc.timing[n]]]
C38_ResultJsonDescribesFirstWrite ==
  sco.result_json # Absent =>
    sco.result_json.artifacts.result_json = file_info(FirstWritten(sco.result_json))
\* two successful calls, the second on replaced predictions
C38_Witness ==
  /\ Len(sco.calls) = 2
  /\ sco.calls[1].pred # sco.calls[2].pred
  /\ sco.result_json = sco.calls[2].result
  /\ "result_json" \in DOMAIN sco.result_json.artifacts

\* C39: when two upserts for the same task_id run concurrently (for example
\* the submit handler's SUBMITTED write and the worker's STARTED write for a
\* task that has no record yet), neither fails because of the other and the
\* resulting record reflects both: every upsert returns and, when it does,
\* the record holds each field it passed.
C39_ConcurrentUpsertsBothLand ==
  [][\A p \in Processes :
       (us[p].pc = "selected" /\ us'[p].pc # "selected") =>
         /\ us'[p].pc = "returned"
         /\ \A f \in Columns :
              Passed(us[p].call)[f] => store'[us[p].id][f] = us[p].call[f]]_vars

====
